---- MODULE Spec2Model ----
(***************************************************************************)
(* Shape and parameter inference of the convolution-family and spatial     *)
(* layers of keras/layers/convolutional.py, the shape and configuration    *)
(* rules of the layers of keras/layers/core.py, and the control flow of    *)
(* train_model of nmt_keras/training.py.                                   *)
(*                                                                         *)
(* A layer instance is constructed from user arguments, and then build,    *)
(* compute_output_shape are applied to it.  Shapes are tuples whose        *)
(* entries are either None or a known integer.                             *)
(***************************************************************************)
EXTENDS Integers, Sequences, FiniteSets, TLC

VARIABLES layer,    \* the constructed instance: its configuration attributes
          built,    \* self.built
          weights,  \* the parameters allocated by add_weight, in order
          op,       \* the last operation applied
          arg,      \* the argument of the last operation
          ret,      \* the outcome of the last operation
          run       \* the run of train_model: its position, parameters,
                    \* local variables and the calls it has made

vars == <<layer, built, weights, op, arg, ret, run>>

----------------------------------------------------------------------------
(* Bounds *)

\* largest value of an entry of kernel_size, strides, dilation_rate, size,
\* padding, cropping, and of filters and depth_multiplier
MaxArg == 2

\* largest known entry of an input shape
MaxDim == 2

\* largest size, kernel and stride the length calculators are applied to
MaxLen == 6

MaxKernel == 3

MaxStride == 3

\* largest number of successful builds of one instance
MaxBuilds == 2

----------------------------------------------------------------------------
(* Values *)

\* Python's None, as a shape entry or an unset optional argument
None == [known |-> FALSE, n |-> 0]

\* a known shape entry n
Dim(n) == [known |-> TRUE, n |-> n]

\* an optional argument that is set (an unset one is None)
Some(v) == [some |-> v]

IsSet(x) == "some" \in DOMAIN x

\* outcome of an operation: a returned value or a raised exception
Ok(v) == [ok |-> TRUE, v |-> v]

Err(e) == [ok |-> FALSE, err |-> e]

\* a user argument that is either a single integer or a tuple
IntArg(v) == [int |-> v]

TupArg(v) == [tup |-> v]

IsInt(x) == "int" \in DOMAIN x

Max(a, b) == IF a >= b THEN a ELSE b

\* s[i] with Python's indexing: 0-based, negative indices count from the end
At(s, i) == IF i >= 0 THEN s[i + 1] ELSE s[Len(s) + i + 1]

Sum2(p) == p[1] + p[2]

----------------------------------------------------------------------------
(* conv_utils, backend and generic_utils helpers *)

\* conv_utils.normalize_tuple: an integer is broadcast to n entries, a
\* sequence must have n entries
normalize_tuple(value, n) ==
    IF IsInt(value) THEN Ok([i \in 1..n |-> value.int])
    ELSE IF Len(value.tup) = n THEN Ok(value.tup)
    ELSE Err("ValueError")

\* str.lower() on the padding strings
Lower(s) ==
    CASE s \in {"valid", "Valid", "VALID"} -> "valid"
      [] s \in {"same", "Same", "SAME"} -> "same"
      [] s \in {"causal", "Causal", "CAUSAL"} -> "causal"
      [] OTHER -> s

\* conv_utils.normalize_padding
normalize_padding(value) ==
    IF Lower(value) \in {"valid", "same", "causal"} THEN Ok(Lower(value))
    ELSE Err("ValueError")

\* K.image_data_format(): the process-wide default layout
image_data_format == "channels_last"

\* an unset data_format argument
NoFormat == "None"

\* K.normalize_data_format
normalize_data_format(value) ==
    LET data_format == IF value = NoFormat THEN image_data_format ELSE value
    IN  IF data_format \in {"channels_first", "channels_last"}
        THEN Ok(data_format)
        ELSE Err("ValueError")

\* conv_utils.conv_output_length
conv_output_length(input_length, filter_size, padding, stride, dilation) ==
    IF ~input_length.known THEN None
    ELSE LET dilated_filter_size == filter_size + (filter_size - 1) * (dilation - 1)
         IN  IF padding = "valid"
             THEN Dim(((input_length.n - dilated_filter_size) \div stride) + 1)
             ELSE Dim(-((-input_length.n) \div stride))

\* conv_utils.deconv_length without the part of the kernel that exceeds the
\* stride
deconv_length_nomax(dim_size, stride_size, kernel_size, padding, output_padding, dilation) ==
    IF ~dim_size.known THEN Ok(None)
    ELSE LET k == kernel_size + (kernel_size - 1) * (dilation - 1)
         IN  IF ~output_padding.known
             THEN CASE padding \in {"valid", "same"} -> Ok(Dim(dim_size.n * stride_size))
                    [] OTHER -> Err("undefined")
             ELSE CASE padding = "valid" ->
                         Ok(Dim((dim_size.n - 1) * stride_size + k + output_padding.n))
                    [] padding = "same" ->
                         Ok(Dim((dim_size.n - 1) * stride_size + k - 2 * (k \div 2)
                                + output_padding.n))
                    [] OTHER -> Err("undefined")

\* conv_utils.deconv_length; output_padding is None or a known entry
deconv_length(dim_size, stride_size, kernel_size, padding, output_padding, dilation) ==
    IF ~dim_size.known THEN Ok(None)
    ELSE LET k == kernel_size + (kernel_size - 1) * (dilation - 1)
         IN  IF ~output_padding.known
             THEN CASE padding = "valid" ->
                         Ok(Dim(dim_size.n * stride_size + Max(k - stride_size, 0)))
                    [] padding = "same" -> Ok(Dim(dim_size.n * stride_size))
                    [] OTHER -> Err("undefined")
             ELSE CASE padding = "valid" ->
                         Ok(Dim((dim_size.n - 1) * stride_size + k + output_padding.n))
                    [] padding = "same" ->
                         Ok(Dim((dim_size.n - 1) * stride_size + k - 2 * (k \div 2)
                                + output_padding.n))
                    [] OTHER -> Err("undefined")

\* generic_utils.transpose_shape: shape is given as (batch, spatial..., channel)
transpose_shape(shape, target_format, spatial_axes) ==
    IF target_format = "channels_first"
    THEN SubSeq(shape, 1, spatial_axes[1]) \o <<shape[Len(shape)]>>
         \o [i \in 1..Len(spatial_axes) |-> shape[spatial_axes[i] + 1]]
    ELSE shape

----------------------------------------------------------------------------
(* Constructors of the convolution family.  a is the record of the user's  *)
(* arguments; the result is Ok(instance attributes) or Err.                *)

\* _Conv.__init__
Conv_init(cls, rank, filters, a) ==
    LET kernel_size   == normalize_tuple(a.kernel_size, rank)
        strides       == normalize_tuple(a.strides, rank)
        padding       == normalize_padding(a.padding)
        data_format   == normalize_data_format(a.data_format)
        dilation_rate == normalize_tuple(a.dilation_rate, rank)
    IN  IF ~kernel_size.ok \/ ~strides.ok \/ ~padding.ok \/ ~data_format.ok
           \/ ~dilation_rate.ok
        THEN Err("ValueError")
        ELSE Ok([cls           |-> cls,
                 rank          |-> rank,
                 filters       |-> filters,
                 kernel_size   |-> kernel_size.v,
                 strides       |-> strides.v,
                 padding       |-> padding.v,
                 data_format   |-> data_format.v,
                 dilation_rate |-> dilation_rate.v,
                 use_bias      |-> a.use_bias])

\* Conv1D.__init__
Conv1D_init(a) ==
    IF a.padding = "causal" /\ a.data_format # "channels_last"
    THEN Err("ValueError")
    ELSE Conv_init("Conv1D", 1, Dim(a.filters), a)

\* Conv2D.__init__
Conv2D_init(a) == Conv_init("Conv2D", 2, Dim(a.filters), a)

\* Conv3D.__init__
Conv3D_init(a) == Conv_init("Conv3D", 3, Dim(a.filters), a)

\* the output_padding handling accepting an output padding equal to the stride
Transpose_output_padding_gt(l, rank, output_padding) ==
    IF ~IsSet(output_padding)
    THEN Ok([output_padding |-> None] @@ l)
    ELSE LET out == normalize_tuple(output_padding.some, rank)
         IN  IF ~out.ok THEN Err("ValueError")
             ELSE IF \E i \in 1..rank : out.v[i] > l.strides[i]
             THEN Err("ValueError")
             ELSE Ok([output_padding |-> Some(out.v)] @@ l)

\* the output_padding handling of Conv2DTranspose.__init__ and
\* Conv3DTranspose.__init__: l is the instance the base constructor made
Transpose_output_padding(l, rank, output_padding) ==
    IF ~IsSet(output_padding)
    THEN Ok([output_padding |-> None] @@ l)
    ELSE LET out == normalize_tuple(output_padding.some, rank)
         IN  IF ~out.ok THEN Err("ValueError")
             ELSE IF \E i \in 1..rank : out.v[i] >= l.strides[i]
             THEN Err("ValueError")
             ELSE Ok([output_padding |-> Some(out.v)] @@ l)

\* Conv2DTranspose.__init__
Conv2DTranspose_init(a) ==
    LET base == Conv_init("Conv2DTranspose", 2, Dim(a.filters), a)
    IN  IF ~base.ok THEN base
        ELSE Transpose_output_padding(base.v, 2, a.output_padding)

\* Conv3DTranspose.__init__: takes no dilation_rate, the base constructor gets
\* its default (1, 1, 1)
Conv3DTranspose_init(a) ==
    LET base == Conv_init("Conv3DTranspose", 3, Dim(a.filters),
                          [dilation_rate |-> TupArg(<<1, 1, 1>>)] @@ a)
    IN  IF ~base.ok THEN base
        ELSE Transpose_output_padding(base.v, 3, a.output_padding)

\* _SeparableConv.__init__
SeparableConv_init(cls, rank, a) ==
    LET base == Conv_init(cls, rank, Dim(a.filters), a)
    IN  IF ~base.ok THEN base
        ELSE Ok([depth_multiplier |-> a.depth_multiplier] @@ base.v)

\* SeparableConv1D.__init__
SeparableConv1D_init(a) == SeparableConv_init("SeparableConv1D", 1, a)

\* SeparableConv2D.__init__
SeparableConv2D_init(a) == SeparableConv_init("SeparableConv2D", 2, a)

\* DepthwiseConv2D.__init__: filters=None
DepthwiseConv2D_init(a) ==
    LET base == Conv_init("DepthwiseConv2D", 2, None, a)
    IN  IF ~base.ok THEN base
        ELSE Ok([depth_multiplier |-> a.depth_multiplier] @@ base.v)

----------------------------------------------------------------------------
(* Constructors of the spatial layers *)

\* _UpSampling.__init__
UpSampling_init(cls, size, data_format) ==
    LET df == normalize_data_format(data_format)
    IN  IF ~df.ok THEN df
        ELSE Ok([cls |-> cls, rank |-> Len(size), size |-> size,
                 data_format |-> df.v])

\* UpSampling1D.__init__
UpSampling1D_init(a) == UpSampling_init("UpSampling1D", <<a.size.int>>, "channels_last")

\* UpSampling2D.__init__
UpSampling2D_init(a) ==
    LET normalized_size == normalize_tuple(a.size, 2)
        base == UpSampling_init("UpSampling2D", normalized_size.v, a.data_format)
    IN  IF ~normalized_size.ok THEN normalized_size
        ELSE IF ~base.ok THEN base
        ELSE IF a.interpolation \notin {"nearest", "bilinear"} THEN Err("ValueError")
        ELSE Ok([interpolation |-> a.interpolation] @@ base.v)

\* UpSampling3D.__init__
UpSampling3D_init(a) ==
    LET normalized_size == normalize_tuple(a.size, 3)
    IN  IF ~normalized_size.ok THEN normalized_size
        ELSE UpSampling_init("UpSampling3D", normalized_size.v, a.data_format)

\* the normalisation of a padding or cropping argument in ZeroPadding2D,
\* ZeroPadding3D, Cropping2D, Cropping3D.__init__: an integer, or a sequence
\* of n entries each normalised to a pair
normalize_pairs(value, n) ==
    IF IsInt(value) THEN Ok([i \in 1..n |-> <<value.int, value.int>>])
    ELSE IF Len(value.tup) # n THEN Err("ValueError")
    ELSE LET entries == [i \in 1..n |-> normalize_tuple(value.tup[i], 2)]
         IN  IF \E i \in 1..n : ~entries[i].ok THEN Err("ValueError")
             ELSE Ok([i \in 1..n |-> entries[i].v])

\* _ZeroPadding.__init__
ZeroPadding_init(cls, padding, data_format) ==
    LET df == normalize_data_format(data_format)
    IN  IF ~df.ok THEN df
        ELSE Ok([cls |-> cls, rank |-> Len(padding), padding |-> padding,
                 data_format |-> df.v])

\* ZeroPadding1D.__init__
ZeroPadding1D_init(a) ==
    LET normalized_padding == normalize_tuple(a.padding, 2)
    IN  IF ~normalized_padding.ok THEN normalized_padding
        ELSE ZeroPadding_init("ZeroPadding1D", <<normalized_padding.v>>,
                              "channels_last")

\* ZeroPadding2D.__init__
ZeroPadding2D_init(a) ==
    LET normalized_padding == normalize_pairs(a.padding, 2)
    IN  IF ~normalized_padding.ok THEN normalized_padding
        ELSE ZeroPadding_init("ZeroPadding2D", normalized_padding.v, a.data_format)

\* ZeroPadding3D.__init__
ZeroPadding3D_init(a) ==
    LET normalized_padding == normalize_pairs(a.padding, 3)
    IN  IF ~normalized_padding.ok THEN normalized_padding
        ELSE ZeroPadding_init("ZeroPadding3D", normalized_padding.v, a.data_format)

\* _Cropping.__init__
Cropping_init(cls, cropping, data_format) ==
    LET df == normalize_data_format(data_format)
    IN  IF ~df.ok THEN df
        ELSE Ok([cls |-> cls, rank |-> Len(cropping), cropping |-> cropping,
                 data_format |-> df.v])

\* Cropping1D.__init__
Cropping1D_init(a) ==
    LET normalized_cropping == normalize_tuple(a.cropping, 2)
    IN  IF ~normalized_cropping.ok THEN normalized_cropping
        ELSE Cropping_init("Cropping1D", <<normalized_cropping.v>>, "channels_last")

\* Cropping2D.__init__
Cropping2D_init(a) ==
    LET normalized_cropping == normalize_pairs(a.cropping, 2)
    IN  IF ~normalized_cropping.ok THEN normalized_cropping
        ELSE Cropping_init("Cropping2D", normalized_cropping.v, a.data_format)

\* Cropping3D.__init__
Cropping3D_init(a) ==
    LET normalized_cropping == normalize_pairs(a.cropping, 3)
    IN  IF ~normalized_cropping.ok THEN normalized_cropping
        ELSE Cropping_init("Cropping3D", normalized_cropping.v, a.data_format)

----------------------------------------------------------------------------
(* build: Ok(the parameters allocated, in order) or Err.  Every error is   *)
(* raised before the first add_weight.                                     *)

Weight(name, shape) == [name |-> name, shape |-> shape]

\* the bias allocated by the convolution builds
Bias(l, n) == IF l.use_bias THEN <<Weight("bias", <<n>>)>> ELSE <<>>

\* _Conv.build with the two channel entries of the kernel exchanged
Conv_build_swapped(l, input_shape) ==
    LET channel_axis == IF l.data_format = "channels_first" THEN 1 ELSE -1
    IN  IF ~At(input_shape, channel_axis).known THEN Err("ValueError")
        ELSE LET input_dim    == At(input_shape, channel_axis).n
                 kernel_shape == l.kernel_size \o <<l.filters.n, input_dim>>
             IN  Ok(<<Weight("kernel", kernel_shape)>> \o Bias(l, l.filters.n))

\* _Conv.build
Conv_build(l, input_shape) ==
    LET channel_axis == IF l.data_format = "channels_first" THEN 1 ELSE -1
    IN  IF ~At(input_shape, channel_axis).known THEN Err("ValueError")
        ELSE LET input_dim    == At(input_shape, channel_axis).n
                 kernel_shape == l.kernel_size \o <<input_dim, l.filters.n>>
             IN  Ok(<<Weight("kernel", kernel_shape)>> \o Bias(l, l.filters.n))

\* the transposed build rejecting only the inputs of a lower rank
ConvTranspose_build_atleast(l, ndim, input_shape) ==
    LET channel_axis == IF l.data_format = "channels_first" THEN 1 ELSE -1
    IN  IF Len(input_shape) < ndim THEN Err("ValueError")
        ELSE IF ~At(input_shape, channel_axis).known THEN Err("ValueError")
        ELSE LET input_dim    == At(input_shape, channel_axis).n
                 kernel_shape == l.kernel_size \o <<l.filters.n, input_dim>>
             IN  Ok(<<Weight("kernel", kernel_shape)>> \o Bias(l, l.filters.n))

\* the transposed build with the kernel laid out as in the plain convolution
ConvTranspose_build_plain(l, ndim, input_shape) ==
    LET channel_axis == IF l.data_format = "channels_first" THEN 1 ELSE -1
    IN  IF Len(input_shape) # ndim THEN Err("ValueError")
        ELSE IF ~At(input_shape, channel_axis).known THEN Err("ValueError")
        ELSE LET input_dim    == At(input_shape, channel_axis).n
                 kernel_shape == l.kernel_size \o <<input_dim, l.filters.n>>
             IN  Ok(<<Weight("kernel", kernel_shape)>> \o Bias(l, l.filters.n))

\* Conv2DTranspose.build (ndim = 4) and Conv3DTranspose.build (ndim = 5)
ConvTranspose_build(l, ndim, input_shape) ==
    LET channel_axis == IF l.data_format = "channels_first" THEN 1 ELSE -1
    IN  IF Len(input_shape) # ndim THEN Err("ValueError")
        ELSE IF ~At(input_shape, channel_axis).known THEN Err("ValueError")
        ELSE LET input_dim    == At(input_shape, channel_axis).n
                 kernel_shape == l.kernel_size \o <<l.filters.n, input_dim>>
             IN  Ok(<<Weight("kernel", kernel_shape)>> \o Bias(l, l.filters.n))

\* _SeparableConv.build with a pointwise kernel that ignores depth_multiplier
SeparableConv_build_nomult(l, input_shape) ==
    LET channel_axis == IF l.data_format = "channels_first" THEN 1 ELSE -1
    IN  IF Len(input_shape) < l.rank + 2 THEN Err("ValueError")
        ELSE IF ~At(input_shape, channel_axis).known THEN Err("ValueError")
        ELSE LET input_dim == At(input_shape, channel_axis).n
                 depthwise_kernel_shape ==
                     l.kernel_size \o <<input_dim, l.depth_multiplier>>
                 pointwise_kernel_shape ==
                     [i \in 1..l.rank |-> 1] \o <<input_dim, l.filters.n>>
             IN  Ok(<<Weight("depthwise_kernel", depthwise_kernel_shape),
                      Weight("pointwise_kernel", pointwise_kernel_shape)>>
                    \o Bias(l, l.filters.n))

\* _SeparableConv.build
SeparableConv_build(l, input_shape) ==
    LET channel_axis == IF l.data_format = "channels_first" THEN 1 ELSE -1
    IN  IF Len(input_shape) < l.rank + 2 THEN Err("ValueError")
        ELSE IF ~At(input_shape, channel_axis).known THEN Err("ValueError")
        ELSE LET input_dim == At(input_shape, channel_axis).n
                 depthwise_kernel_shape ==
                     l.kernel_size \o <<input_dim, l.depth_multiplier>>
                 pointwise_kernel_shape ==
                     [i \in 1..l.rank |-> 1]
                     \o <<l.depth_multiplier * input_dim, l.filters.n>>
             IN  Ok(<<Weight("depthwise_kernel", depthwise_kernel_shape),
                      Weight("pointwise_kernel", pointwise_kernel_shape)>>
                    \o Bias(l, l.filters.n))

\* DepthwiseConv2D.build
DepthwiseConv2D_build(l, input_shape) ==
    LET channel_axis == IF l.data_format = "channels_first" THEN 1 ELSE 3
    IN  IF Len(input_shape) < 4 THEN Err("ValueError")
        ELSE IF ~At(input_shape, channel_axis).known THEN Err("ValueError")
        ELSE LET input_dim == At(input_shape, channel_axis).n
                 depthwise_kernel_shape ==
                     <<l.kernel_size[1], l.kernel_size[2], input_dim,
                       l.depth_multiplier>>
             IN  Ok(<<Weight("depthwise_kernel", depthwise_kernel_shape)>>
                    \o Bias(l, input_dim * l.depth_multiplier))

----------------------------------------------------------------------------
(* compute_output_shape: Ok(output shape) or Err *)

\* _Conv.compute_output_shape with the stride of the first axis used on
\* every axis
Conv_compute_output_shape_stride0(l, input_shape) ==
    LET space == IF l.data_format = "channels_last"
                 THEN SubSeq(input_shape, 2, Len(input_shape) - 1)
                 ELSE SubSeq(input_shape, 3, Len(input_shape))
        new_space == [i \in 1..Len(space) |->
                         conv_output_length(space[i], l.kernel_size[i], l.padding,
                                            l.strides[1], l.dilation_rate[i])]
    IN  IF Len(space) > l.rank THEN Err("IndexError")
        ELSE IF l.data_format = "channels_last"
        THEN Ok(<<input_shape[1]>> \o new_space \o <<l.filters>>)
        ELSE Ok(<<input_shape[1], l.filters>> \o new_space)

\* _Conv.compute_output_shape
Conv_compute_output_shape(l, input_shape) ==
    LET space == IF l.data_format = "channels_last"
                 THEN SubSeq(input_shape, 2, Len(input_shape) - 1)
                 ELSE SubSeq(input_shape, 3, Len(input_shape))
        new_space == [i \in 1..Len(space) |->
                         conv_output_length(space[i], l.kernel_size[i], l.padding,
                                            l.strides[i], l.dilation_rate[i])]
    IN  IF Len(space) > l.rank THEN Err("IndexError")
        ELSE IF l.data_format = "channels_last"
        THEN Ok(<<input_shape[1]>> \o new_space \o <<l.filters>>)
        ELSE Ok(<<input_shape[1], l.filters>> \o new_space)

\* the entry of output_padding for axis i, or None
OutPad(l, i) ==
    IF IsSet(l.output_padding) THEN Dim(l.output_padding.some[i]) ELSE None

\* Conv2DTranspose.compute_output_shape with the height and width axes of
\* the input exchanged
Conv2DTranspose_compute_output_shape_swapped(l, input_shape) ==
    LET c_axis == IF l.data_format = "channels_first" THEN 1 ELSE 3
        h_axis == IF l.data_format = "channels_first" THEN 2 ELSE 1
        w_axis == IF l.data_format = "channels_first" THEN 3 ELSE 2
        h == deconv_length(At(input_shape, w_axis), l.strides[1], l.kernel_size[1],
                           l.padding, OutPad(l, 1), l.dilation_rate[1])
        w == deconv_length(At(input_shape, h_axis), l.strides[2], l.kernel_size[2],
                           l.padding, OutPad(l, 2), l.dilation_rate[2])
    IN  IF Len(input_shape) < 4 THEN Err("IndexError")
        ELSE IF ~h.ok THEN h
        ELSE IF ~w.ok THEN w
        ELSE Ok([i \in 1..Len(input_shape) |->
                    CASE i = c_axis + 1 -> l.filters
                      [] i = h_axis + 1 -> h.v
                      [] i = w_axis + 1 -> w.v
                      [] OTHER -> input_shape[i]])

\* Conv2DTranspose.compute_output_shape
Conv2DTranspose_compute_output_shape(l, input_shape) ==
    LET c_axis == IF l.data_format = "channels_first" THEN 1 ELSE 3
        h_axis == IF l.data_format = "channels_first" THEN 2 ELSE 1
        w_axis == IF l.data_format = "channels_first" THEN 3 ELSE 2
        h == deconv_length(At(input_shape, h_axis), l.strides[1], l.kernel_size[1],
                           l.padding, OutPad(l, 1), l.dilation_rate[1])
        w == deconv_length(At(input_shape, w_axis), l.strides[2], l.kernel_size[2],
                           l.padding, OutPad(l, 2), l.dilation_rate[2])
    IN  IF Len(input_shape) < 4 THEN Err("IndexError")
        ELSE IF ~h.ok THEN h
        ELSE IF ~w.ok THEN w
        ELSE Ok([i \in 1..Len(input_shape) |->
                    CASE i = c_axis + 1 -> l.filters
                      [] i = h_axis + 1 -> h.v
                      [] i = w_axis + 1 -> w.v
                      [] OTHER -> input_shape[i]])

\* Conv3DTranspose.compute_output_shape: deconv_length gets its default
\* dilation 1
Conv3DTranspose_compute_output_shape(l, input_shape) ==
    LET c_axis == IF l.data_format = "channels_first" THEN 1 ELSE 4
        d_axis == IF l.data_format = "channels_first" THEN 2 ELSE 1
        h_axis == IF l.data_format = "channels_first" THEN 3 ELSE 2
        w_axis == IF l.data_format = "channels_first" THEN 4 ELSE 3
        d == deconv_length(At(input_shape, d_axis), l.strides[1], l.kernel_size[1],
                           l.padding, OutPad(l, 1), 1)
        h == deconv_length(At(input_shape, h_axis), l.strides[2], l.kernel_size[2],
                           l.padding, OutPad(l, 2), 1)
        w == deconv_length(At(input_shape, w_axis), l.strides[3], l.kernel_size[3],
                           l.padding, OutPad(l, 3), 1)
    IN  IF Len(input_shape) < 5 THEN Err("IndexError")
        ELSE IF ~d.ok THEN d
        ELSE IF ~h.ok THEN h
        ELSE IF ~w.ok THEN w
        ELSE Ok([i \in 1..Len(input_shape) |->
                    CASE i = c_axis + 1 -> l.filters
                      [] i = d_axis + 1 -> d.v
                      [] i = h_axis + 1 -> h.v
                      [] i = w_axis + 1 -> w.v
                      [] OTHER -> input_shape[i]])

\* DepthwiseConv2D.compute_output_shape without the depth multiplier
DepthwiseConv2D_compute_output_shape_nomult(l, input_shape) ==
    LET space == IF l.data_format = "channels_last"
                 THEN SubSeq(input_shape, 2, Len(input_shape) - 1)
                 ELSE SubSeq(input_shape, 3, Len(input_shape))
        channels == IF l.data_format = "channels_last"
                    THEN At(input_shape, 3) ELSE At(input_shape, 1)
        new_space == [i \in 1..Len(space) |->
                         conv_output_length(space[i], l.kernel_size[i], l.padding,
                                            l.strides[i], l.dilation_rate[i])]
    IN  IF Len(input_shape) < 4 \/ Len(space) > 2 THEN Err("IndexError")
        ELSE IF ~channels.known THEN Err("TypeError")
        ELSE IF l.data_format = "channels_last"
        THEN Ok(<<input_shape[1], new_space[1], new_space[2], channels>>)
        ELSE Ok(<<input_shape[1], channels, new_space[1], new_space[2]>>)

\* DepthwiseConv2D.compute_output_shape
DepthwiseConv2D_compute_output_shape(l, input_shape) ==
    LET space == IF l.data_format = "channels_last"
                 THEN SubSeq(input_shape, 2, Len(input_shape) - 1)
                 ELSE SubSeq(input_shape, 3, Len(input_shape))
        channels == IF l.data_format = "channels_last"
                    THEN At(input_shape, 3) ELSE At(input_shape, 1)
        new_space == [i \in 1..Len(space) |->
                         conv_output_length(space[i], l.kernel_size[i], l.padding,
                                            l.strides[i], l.dilation_rate[i])]
    IN  IF Len(input_shape) < 4 \/ Len(space) > 2 THEN Err("IndexError")
        ELSE IF ~channels.known THEN Err("TypeError")
        ELSE LET out_filters == Dim(channels.n * l.depth_multiplier)
             IN  IF l.data_format = "channels_last"
                 THEN Ok(<<input_shape[1], new_space[1], new_space[2], out_filters>>)
                 ELSE Ok(<<input_shape[1], out_filters, new_space[1], new_space[2]>>)

\* Conv2DTranspose.call without the output padding
Conv2DTranspose_call_nopad(l, input_shape) ==
    LET h_axis == IF l.data_format = "channels_first" THEN 2 ELSE 1
        w_axis == IF l.data_format = "channels_first" THEN 3 ELSE 2
        out_height == deconv_length(At(input_shape, h_axis), l.strides[1],
                                    l.kernel_size[1], l.padding, None,
                                    l.dilation_rate[1])
        out_width == deconv_length(At(input_shape, w_axis), l.strides[2],
                                   l.kernel_size[2], l.padding, None,
                                   l.dilation_rate[2])
    IN  IF ~out_height.ok THEN out_height
        ELSE IF ~out_width.ok THEN out_width
        ELSE IF l.data_format = "channels_first"
        THEN Ok(<<input_shape[1], l.filters, out_height.v, out_width.v>>)
        ELSE Ok(<<input_shape[1], out_height.v, out_width.v, l.filters>>)

\* Conv2DTranspose.call: the output_shape handed to K.conv2d_transpose for an
\* input tensor of shape input_shape
Conv2DTranspose_call(l, input_shape) ==
    LET h_axis == IF l.data_format = "channels_first" THEN 2 ELSE 1
        w_axis == IF l.data_format = "channels_first" THEN 3 ELSE 2
        out_height == deconv_length(At(input_shape, h_axis), l.strides[1],
                                    l.kernel_size[1], l.padding, OutPad(l, 1),
                                    l.dilation_rate[1])
        out_width == deconv_length(At(input_shape, w_axis), l.strides[2],
                                   l.kernel_size[2], l.padding, OutPad(l, 2),
                                   l.dilation_rate[2])
    IN  IF ~out_height.ok THEN out_height
        ELSE IF ~out_width.ok THEN out_width
        ELSE IF l.data_format = "channels_first"
        THEN Ok(<<input_shape[1], l.filters, out_height.v, out_width.v>>)
        ELSE Ok(<<input_shape[1], out_height.v, out_width.v, l.filters>>)

\* Conv3DTranspose.call: the output_shape handed to K.conv3d_transpose;
\* deconv_length gets its default dilation 1
Conv3DTranspose_call(l, input_shape) ==
    LET d_axis == IF l.data_format = "channels_first" THEN 2 ELSE 1
        h_axis == IF l.data_format = "channels_first" THEN 3 ELSE 2
        w_axis == IF l.data_format = "channels_first" THEN 4 ELSE 3
        out_depth == deconv_length(At(input_shape, d_axis), l.strides[1],
                                   l.kernel_size[1], l.padding, OutPad(l, 1), 1)
        out_height == deconv_length(At(input_shape, h_axis), l.strides[2],
                                    l.kernel_size[2], l.padding, OutPad(l, 2), 1)
        out_width == deconv_length(At(input_shape, w_axis), l.strides[3],
                                   l.kernel_size[3], l.padding, OutPad(l, 3), 1)
    IN  IF ~out_depth.ok THEN out_depth
        ELSE IF ~out_height.ok THEN out_height
        ELSE IF ~out_width.ok THEN out_width
        ELSE IF l.data_format = "channels_first"
        THEN Ok(<<input_shape[1], l.filters, out_depth.v, out_height.v, out_width.v>>)
        ELSE Ok(<<input_shape[1], out_depth.v, out_height.v, out_width.v, l.filters>>)

\* list(range(1, 1 + rank))
SpatialAxes(rank) == [i \in 1..rank |-> i]

\* _UpSampling.compute_output_shape without the transposition to the layout
UpSampling_compute_output_shape_nolayout(l, input_shape) ==
    LET size_all_dims == <<1>> \o l.size \o <<1>>
    IN  IF Len(input_shape) > Len(size_all_dims) THEN Err("IndexError")
        ELSE Ok([dim \in 1..Len(input_shape) |->
                    IF input_shape[dim].known
                    THEN Dim(input_shape[dim].n * size_all_dims[dim])
                    ELSE input_shape[dim]])

\* _UpSampling.compute_output_shape
UpSampling_compute_output_shape(l, input_shape) ==
    LET size_all_dims == transpose_shape(<<1>> \o l.size \o <<1>>, l.data_format,
                                         SpatialAxes(l.rank))
    IN  IF Len(input_shape) > Len(size_all_dims) THEN Err("IndexError")
        ELSE Ok([dim \in 1..Len(input_shape) |->
                    IF input_shape[dim].known
                    THEN Dim(input_shape[dim].n * size_all_dims[dim])
                    ELSE input_shape[dim]])

\* _ZeroPadding.compute_output_shape adding the padding before only
ZeroPadding_compute_output_shape_before(l, input_shape) ==
    LET padding_all_dims ==
            transpose_shape(<<<<0, 0>>>> \o l.padding \o <<<<0, 0>>>>,
                            l.data_format, SpatialAxes(l.rank))
    IN  IF Len(input_shape) > Len(padding_all_dims) THEN Err("IndexError")
        ELSE Ok([dim \in 1..Len(input_shape) |->
                    IF input_shape[dim].known
                    THEN Dim(input_shape[dim].n + padding_all_dims[dim][1])
                    ELSE input_shape[dim]])

\* _ZeroPadding.compute_output_shape
ZeroPadding_compute_output_shape(l, input_shape) ==
    LET padding_all_dims ==
            transpose_shape(<<<<0, 0>>>> \o l.padding \o <<<<0, 0>>>>,
                            l.data_format, SpatialAxes(l.rank))
    IN  IF Len(input_shape) > Len(padding_all_dims) THEN Err("IndexError")
        ELSE Ok([dim \in 1..Len(input_shape) |->
                    IF input_shape[dim].known
                    THEN Dim(input_shape[dim].n + Sum2(padding_all_dims[dim]))
                    ELSE input_shape[dim]])

\* _Cropping.compute_output_shape without the transposition to the layout
Cropping_compute_output_shape_nolayout(l, input_shape) ==
    LET cropping_all_dims == <<<<0, 0>>>> \o l.cropping \o <<<<0, 0>>>>
    IN  IF Len(input_shape) > Len(cropping_all_dims) THEN Err("IndexError")
        ELSE Ok([dim \in 1..Len(input_shape) |->
                    IF input_shape[dim].known
                    THEN Dim(input_shape[dim].n
                             - (cropping_all_dims[dim][1] + cropping_all_dims[dim][2]))
                    ELSE input_shape[dim]])

\* _Cropping.compute_output_shape removing the crop before only
Cropping_compute_output_shape_before(l, input_shape) ==
    LET cropping_all_dims ==
            transpose_shape(<<<<0, 0>>>> \o l.cropping \o <<<<0, 0>>>>,
                            l.data_format, SpatialAxes(l.rank))
    IN  IF Len(input_shape) > Len(cropping_all_dims) THEN Err("IndexError")
        ELSE Ok([dim \in 1..Len(input_shape) |->
                    IF input_shape[dim].known
                    THEN Dim(input_shape[dim].n - cropping_all_dims[dim][1])
                    ELSE input_shape[dim]])

\* _Cropping.compute_output_shape
Cropping_compute_output_shape(l, input_shape) ==
    LET cropping_all_dims ==
            transpose_shape(<<<<0, 0>>>> \o l.cropping \o <<<<0, 0>>>>,
                            l.data_format, SpatialAxes(l.rank))
    IN  IF Len(input_shape) > Len(cropping_all_dims) THEN Err("IndexError")
        ELSE Ok([dim \in 1..Len(input_shape) |->
                    IF input_shape[dim].known
                    THEN Dim(input_shape[dim].n - Sum2(cropping_all_dims[dim]))
                    ELSE input_shape[dim]])

----------------------------------------------------------------------------
(* get_config: the mapping of the configuration fields.  The activation,   *)
(* initializer, regularizer and constraint entries are not modelled.        *)

\* config.pop(key)
Pop(config, key) == [f \in DOMAIN config \ {key} |-> config[f]]

\* _Conv.get_config
Conv_get_config(l) ==
    [rank          |-> l.rank,
     filters       |-> l.filters,
     kernel_size   |-> l.kernel_size,
     strides       |-> l.strides,
     padding       |-> l.padding,
     data_format   |-> l.data_format,
     dilation_rate |-> l.dilation_rate,
     use_bias      |-> l.use_bias]

\* Conv1D.get_config, Conv2D.get_config, Conv3D.get_config
ConvND_get_config(l) == Pop(Conv_get_config(l), "rank")

\* Conv2DTranspose.get_config
Conv2DTranspose_get_config(l) ==
    [output_padding |-> l.output_padding] @@ ConvND_get_config(l)

\* Conv3DTranspose.get_config
Conv3DTranspose_get_config(l) ==
    [output_padding |-> l.output_padding]
    @@ Pop(ConvND_get_config(l), "dilation_rate")

\* _SeparableConv.get_config
SeparableConv_get_config(l) ==
    [depth_multiplier |-> l.depth_multiplier] @@ Pop(Conv_get_config(l), "rank")

\* DepthwiseConv2D.get_config
DepthwiseConv2D_get_config(l) ==
    [depth_multiplier |-> l.depth_multiplier]
    @@ Pop(ConvND_get_config(l), "filters")

\* _UpSampling.get_config
UpSampling_get_config(l) == [size |-> l.size, data_format |-> l.data_format]

\* UpSampling1D.get_config
UpSampling1D_get_config(l) ==
    Pop([UpSampling_get_config(l) EXCEPT !.size = l.size[1]], "data_format")

\* UpSampling2D.get_config
UpSampling2D_get_config(l) ==
    [interpolation |-> l.interpolation] @@ UpSampling_get_config(l)

\* _ZeroPadding.get_config
ZeroPadding_get_config(l) == [padding |-> l.padding, data_format |-> l.data_format]

\* ZeroPadding1D.get_config
ZeroPadding1D_get_config(l) ==
    Pop([ZeroPadding_get_config(l) EXCEPT !.padding = l.padding[1]], "data_format")

\* _Cropping.get_config
Cropping_get_config(l) == [cropping |-> l.cropping, data_format |-> l.data_format]

\* Cropping1D.get_config
Cropping1D_get_config(l) ==
    Pop([Cropping_get_config(l) EXCEPT !.cropping = l.cropping[1]], "data_format")

----------------------------------------------------------------------------
(* Dispatch on the class of the instance *)

PlainClasses == {"Conv1D", "Conv2D", "Conv3D"}

TransposeClasses == {"Conv2DTranspose", "Conv3DTranspose"}

SeparableClasses == {"SeparableConv1D", "SeparableConv2D"}

DepthwiseClasses == {"DepthwiseConv2D"}

ConvClasses ==
    PlainClasses \cup TransposeClasses \cup SeparableClasses \cup DepthwiseClasses

UpSamplingClasses == {"UpSampling1D", "UpSampling2D", "UpSampling3D"}

ZeroPaddingClasses == {"ZeroPadding1D", "ZeroPadding2D", "ZeroPadding3D"}

CroppingClasses == {"Cropping1D", "Cropping2D", "Cropping3D"}

SpatialClasses == UpSamplingClasses \cup ZeroPaddingClasses \cup CroppingClasses

\* cls(**a)
New(cls, a) ==
    CASE cls = "Conv1D" -> Conv1D_init(a)
      [] cls = "Conv2D" -> Conv2D_init(a)
      [] cls = "Conv3D" -> Conv3D_init(a)
      [] cls = "Conv2DTranspose" -> Conv2DTranspose_init(a)
      [] cls = "Conv3DTranspose" -> Conv3DTranspose_init(a)
      [] cls = "SeparableConv1D" -> SeparableConv1D_init(a)
      [] cls = "SeparableConv2D" -> SeparableConv2D_init(a)
      [] cls = "DepthwiseConv2D" -> DepthwiseConv2D_init(a)
      [] cls = "UpSampling1D" -> UpSampling1D_init(a)
      [] cls = "UpSampling2D" -> UpSampling2D_init(a)
      [] cls = "UpSampling3D" -> UpSampling3D_init(a)
      [] cls = "ZeroPadding1D" -> ZeroPadding1D_init(a)
      [] cls = "ZeroPadding2D" -> ZeroPadding2D_init(a)
      [] cls = "ZeroPadding3D" -> ZeroPadding3D_init(a)
      [] cls = "Cropping1D" -> Cropping1D_init(a)
      [] cls = "Cropping2D" -> Cropping2D_init(a)
      [] cls = "Cropping3D" -> Cropping3D_init(a)

\* l.build(input_shape)
build(l, input_shape) ==
    CASE l.cls \in PlainClasses -> Conv_build(l, input_shape)
      [] l.cls = "Conv2DTranspose" -> ConvTranspose_build(l, 4, input_shape)
      [] l.cls = "Conv3DTranspose" -> ConvTranspose_build(l, 5, input_shape)
      [] l.cls \in SeparableClasses -> SeparableConv_build(l, input_shape)
      [] l.cls = "DepthwiseConv2D" -> DepthwiseConv2D_build(l, input_shape)

\* l.compute_output_shape(input_shape)
compute_output_shape(l, input_shape) ==
    CASE l.cls \in PlainClasses \cup SeparableClasses ->
             Conv_compute_output_shape(l, input_shape)
      [] l.cls = "Conv2DTranspose" ->
             Conv2DTranspose_compute_output_shape(l, input_shape)
      [] l.cls = "Conv3DTranspose" ->
             Conv3DTranspose_compute_output_shape(l, input_shape)
      [] l.cls = "DepthwiseConv2D" ->
             DepthwiseConv2D_compute_output_shape(l, input_shape)
      [] l.cls \in UpSamplingClasses -> UpSampling_compute_output_shape(l, input_shape)
      [] l.cls \in ZeroPaddingClasses ->
             ZeroPadding_compute_output_shape(l, input_shape)
      [] l.cls \in CroppingClasses -> Cropping_compute_output_shape(l, input_shape)

\* l.get_config()
get_config(l) ==
    CASE l.cls \in PlainClasses -> ConvND_get_config(l)
      [] l.cls = "Conv2DTranspose" -> Conv2DTranspose_get_config(l)
      [] l.cls = "Conv3DTranspose" -> Conv3DTranspose_get_config(l)
      [] l.cls \in SeparableClasses -> SeparableConv_get_config(l)
      [] l.cls = "DepthwiseConv2D" -> DepthwiseConv2D_get_config(l)
      [] l.cls = "UpSampling1D" -> UpSampling1D_get_config(l)
      [] l.cls = "UpSampling2D" -> UpSampling2D_get_config(l)
      [] l.cls = "UpSampling3D" -> UpSampling_get_config(l)
      [] l.cls = "ZeroPadding1D" -> ZeroPadding1D_get_config(l)
      [] l.cls \in {"ZeroPadding2D", "ZeroPadding3D"} -> ZeroPadding_get_config(l)
      [] l.cls = "Cropping1D" -> Cropping1D_get_config(l)
      [] l.cls \in {"Cropping2D", "Cropping3D"} -> Cropping_get_config(l)

\* the keyword argument a value of a configuration mapping is passed as:
\* a tuple stays a tuple, a tuple of pairs stays a tuple of pairs
Keyword(cls, key, v) ==
    CASE key = "filters" -> v.n
      [] key \in {"kernel_size", "strides", "dilation_rate"} -> TupArg(v)
      [] key = "output_padding" -> IF IsSet(v) THEN Some(TupArg(v.some)) ELSE None
      [] key = "size" -> IF cls = "UpSampling1D" THEN IntArg(v) ELSE TupArg(v)
      [] key \in {"padding", "cropping"} /\ cls \in {"ZeroPadding1D", "Cropping1D"} ->
             TupArg(v)
      [] key \in {"padding", "cropping"} /\ cls \in SpatialClasses ->
             TupArg([i \in DOMAIN v |-> TupArg(v[i])])
      [] OTHER -> v

\* Layer.from_config: cls(**config)
from_config(cls, config) ==
    New(cls, [key \in DOMAIN config |-> Keyword(cls, key, config[key])])

----------------------------------------------------------------------------
(* The arguments the operations are applied to *)

\* the declared rank of a class
RankOf(cls) ==
    CASE cls \in {"Conv1D", "SeparableConv1D", "UpSampling1D", "ZeroPadding1D",
                  "Cropping1D"} -> 1
      [] cls \in {"Conv2D", "Conv2DTranspose", "SeparableConv2D",
                  "DepthwiseConv2D", "UpSampling2D", "ZeroPadding2D",
                  "Cropping2D"} -> 2
      [] cls \in {"Conv3D", "Conv3DTranspose", "UpSampling3D", "ZeroPadding3D",
                  "Cropping3D"} -> 3

\* a tuple whose entries differ from axis to axis
Ramp(rank) == [i \in 1..rank |-> ((i - 1) % MaxArg) + 1]

\* kernel_size, strides, dilation_rate: a single integer or a tuple
TupleArgs(rank) == {IntArg(1), IntArg(MaxArg), TupArg(Ramp(rank))}

\* filters, depth_multiplier
CountArgs == {1, MaxArg}

PaddingArgs == {"valid", "same", "causal", "SAME", "Causal"}

FormatArgs == {NoFormat, "channels_first", "channels_last"}

OutputPaddingArgs == {None, Some(IntArg(0)), Some(IntArg(MaxArg - 1))}

\* the amounts of a padding or cropping pair
Amounts == 0..MaxArg

\* padding of ZeroPadding1D, cropping of Cropping1D: an integer or a pair
PairArgs == {IntArg(p) : p \in Amounts} \cup {TupArg(<<p, q>>) : p, q \in Amounts}

\* padding and cropping of the 2D and 3D layers: an integer, a tuple of
\* integers, or a tuple of pairs, the same or different from axis to axis
NestedArgs(rank) ==
    {IntArg(p) : p \in Amounts}
    \cup {TupArg([i \in 1..rank |-> IntArg((p + i) % (MaxArg + 1))]) : p \in Amounts}
    \cup {TupArg([i \in 1..rank |-> TupArg(<<p, q>>)]) : p, q \in Amounts}
    \cup {TupArg([i \in 1..rank |-> TupArg(<<(p + i) % (MaxArg + 1), q>>)]) :
              p, q \in Amounts}

\* the keyword arguments of the constructor of cls
ArgsOf(cls) ==
    LET r == RankOf(cls)
        common == [kernel_size : TupleArgs(r), strides : TupleArgs(r),
                   padding : PaddingArgs, data_format : FormatArgs,
                   use_bias : BOOLEAN]
        Extend(S, T) == {t @@ x : x \in S, t \in T}
    IN  CASE cls \in PlainClasses ->
                 Extend(common, [filters : CountArgs, dilation_rate : TupleArgs(r)])
          [] cls = "Conv2DTranspose" ->
                 Extend(common, [filters : CountArgs, dilation_rate : TupleArgs(r),
                                 output_padding : OutputPaddingArgs])
          [] cls = "Conv3DTranspose" ->
                 Extend(common, [filters : CountArgs,
                                 output_padding : OutputPaddingArgs])
          [] cls \in SeparableClasses ->
                 Extend(common, [filters : CountArgs, dilation_rate : TupleArgs(r),
                                 depth_multiplier : CountArgs])
          [] cls = "DepthwiseConv2D" ->
                 Extend(common, [dilation_rate : TupleArgs(r),
                                 depth_multiplier : CountArgs])
          [] cls = "UpSampling1D" -> [size : {IntArg(v) : v \in 1..MaxArg}]
          [] cls = "UpSampling2D" ->
                 [size : TupleArgs(r), data_format : FormatArgs,
                  interpolation : {"nearest", "bilinear"}]
          [] cls = "UpSampling3D" -> [size : TupleArgs(r), data_format : FormatArgs]
          [] cls = "ZeroPadding1D" -> [padding : PairArgs]
          [] cls \in {"ZeroPadding2D", "ZeroPadding3D"} ->
                 [padding : NestedArgs(r), data_format : FormatArgs]
          [] cls = "Cropping1D" -> [cropping : PairArgs]
          [] cls \in {"Cropping2D", "Cropping3D"} ->
                 [cropping : NestedArgs(r), data_format : FormatArgs]

\* the entries of an input shape
DimValues == {None} \cup {Dim(n) : n \in 1..MaxDim}

\* the input shapes with n entries; the batch entry is None or known
ShapesOfRank(n) == {s \in [1..n -> DimValues] : s[1] \in {None, Dim(MaxDim)}}

----------------------------------------------------------------------------
(* Actions *)

NoLayer == [cls |-> "none"]

\* no run of train_model
Idle == [pc |-> "idle"]

Init ==
    /\ run = Idle
    /\ layer = NoLayer
    /\ built = FALSE
    /\ weights = <<>>
    /\ op = "none"
    /\ arg = <<>>
    /\ ret = Ok(<<>>)

\* layer = cls(**a), for a class of the set classes
Construct(classes) ==
    /\ op = "none"
    /\ \E cls \in classes : \E a \in ArgsOf(cls) :
          LET r == New(cls, a)
          IN  /\ layer' = IF r.ok THEN r.v ELSE NoLayer
              /\ op' = "init"
              /\ arg' = [cls |-> cls, a |-> a]
              /\ ret' = IF r.ok THEN Ok(<<>>) ELSE r
    /\ UNCHANGED <<built, weights, run>>

\* a constructed instance no operation has been applied to
Fresh == op = "init" /\ ret.ok

\* layer.build(input_shape)
Build ==
    /\ Fresh
    /\ layer.cls \in ConvClasses
    /\ \E input_shape \in ShapesOfRank(layer.rank + 2) :
          LET r == build(layer, input_shape)
          IN  /\ built' = IF r.ok THEN TRUE ELSE built
              /\ weights' = IF r.ok THEN weights \o r.v ELSE weights
              /\ op' = "build"
              /\ arg' = input_shape
              /\ ret' = IF r.ok THEN Ok(<<>>) ELSE r
    /\ UNCHANGED <<layer, run>>

\* layer.compute_output_shape(input_shape)
ComputeOutputShape ==
    /\ Fresh
    /\ \E input_shape \in ShapesOfRank(layer.rank + 2) :
          /\ op' = "compute_output_shape"
          /\ arg' = input_shape
          /\ ret' = compute_output_shape(layer, input_shape)
    /\ UNCHANGED <<layer, built, weights, run>>

ConstructPlain == Construct(PlainClasses)

NextPlain == ConstructPlain \/ Build \/ ComputeOutputShape

\* Conv1D, Conv2D and Conv3D
SpecPlain == Init /\ [][NextPlain]_vars

ConstructTranspose == Construct(TransposeClasses)

NextTranspose == ConstructTranspose \/ Build \/ ComputeOutputShape

\* Conv2DTranspose and Conv3DTranspose
SpecTranspose == Init /\ [][NextTranspose]_vars

ConstructDepthSep == Construct(SeparableClasses \cup DepthwiseClasses)

NextDepthSep == ConstructDepthSep \/ Build \/ ComputeOutputShape

\* SeparableConv1D, SeparableConv2D and DepthwiseConv2D
SpecDepthSep == Init /\ [][NextDepthSep]_vars

ConstructConv == Construct(ConvClasses)

NextConv == ConstructConv \/ Build \/ ComputeOutputShape

\* every convolution-family class
SpecConv == Init /\ [][NextConv]_vars

ConstructSpatial == Construct(SpatialClasses)

NextSpatial == ConstructSpatial \/ ComputeOutputShape

\* UpSampling, ZeroPadding and Cropping layers
SpecSpatial == Init /\ [][NextSpatial]_vars

ConstructLayers == Construct(ConvClasses \cup SpatialClasses)

NextLayers == ConstructLayers \/ Build \/ ComputeOutputShape

\* every layer class of the module
SpecLayers == Init /\ [][NextLayers]_vars

\* the shapes of the tensors a built layer is called on: every entry is known
\* at run time, and the channel entry is the one the layer was built for
TensorShapes(l, build_shape) ==
    LET c == IF l.data_format = "channels_first" THEN 2 ELSE Len(build_shape)
    IN  {s \in ShapesOfRank(Len(build_shape)) :
            /\ \A i \in 1..Len(s) : s[i].known
            /\ s[c] = build_shape[c]}

\* layer.call(inputs) of a built Conv2DTranspose or Conv3DTranspose, up to
\* the output_shape it hands to the backend
Call ==
    /\ op = "build" /\ ret.ok
    /\ layer.cls \in TransposeClasses
    /\ \E input_shape \in TensorShapes(layer, arg) :
          /\ op' = "call"
          /\ arg' = input_shape
          /\ ret' = IF layer.cls = "Conv2DTranspose"
                    THEN Conv2DTranspose_call(layer, input_shape)
                    ELSE Conv3DTranspose_call(layer, input_shape)
    /\ UNCHANGED <<layer, built, weights, run>>

NextTransposeCall == ConstructTranspose \/ Build \/ Call

\* Conv2DTranspose and Conv3DTranspose, built and then called
SpecTransposeCall == Init /\ [][NextTransposeCall]_vars

\* the input shapes of a rank other than n
ShapesOfOtherRank(n) == ShapesOfRank(n - 1) \cup ShapesOfRank(n + 1)

\* layer.build(input_shape) called directly on a shape whose rank is not the
\* declared rank + 2
BuildOtherRank ==
    /\ Fresh
    /\ layer.cls \in ConvClasses
    /\ \E input_shape \in ShapesOfOtherRank(layer.rank + 2) :
          LET r == build(layer, input_shape)
          IN  /\ built' = IF r.ok THEN TRUE ELSE built
              /\ weights' = IF r.ok THEN weights \o r.v ELSE weights
              /\ op' = "build"
              /\ arg' = input_shape
              /\ ret' = IF r.ok THEN Ok(<<>>) ELSE r
    /\ UNCHANGED <<layer, run>>

NextBuild == ConstructConv \/ Build \/ BuildOtherRank

\* the convolution family built on input shapes of every rank
SpecBuild == Init /\ [][NextBuild]_vars

----------------------------------------------------------------------------
(* Sequences of operations on one instance: after the construction, build, *)
(* compute_output_shape and get_config are applied in any order.           *)

\* the number of successful builds weights were allocated by
Builds(w) ==
    Cardinality({i \in 1..Len(w) : w[i].name \in {"kernel", "depthwise_kernel"}})

\* the input shapes of the sequences: the batch entry is None and the
\* spatial entries are equal
LifecycleShapes(l) ==
    LET first == IF l.data_format = "channels_first" THEN 3 ELSE 2
    IN  {s \in ShapesOfRank(l.rank + 2) :
            /\ s[1] = None
            /\ \A i \in 1..l.rank : s[first + i - 1] = s[first]}

\* layer.build(input_shape) on an instance in any state
BuildAny_reset ==
    /\ layer.cls \in ConvClasses
    /\ Builds(weights) < MaxBuilds
    /\ \E input_shape \in LifecycleShapes(layer) :
          LET r == build(layer, input_shape)
          IN  /\ built' = r.ok
              /\ weights' = IF r.ok THEN weights \o r.v ELSE weights
              /\ op' = "build"
              /\ arg' = input_shape
              /\ ret' = IF r.ok THEN Ok(<<>>) ELSE r
    /\ UNCHANGED <<layer, run>>

BuildAny ==
    /\ layer.cls \in ConvClasses
    /\ Builds(weights) < MaxBuilds
    /\ \E input_shape \in LifecycleShapes(layer) :
          LET r == build(layer, input_shape)
          IN  /\ built' = IF r.ok THEN TRUE ELSE built
              /\ weights' = IF r.ok THEN weights \o r.v ELSE weights
              /\ op' = "build"
              /\ arg' = input_shape
              /\ ret' = IF r.ok THEN Ok(<<>>) ELSE r
    /\ UNCHANGED <<layer, run>>

\* layer.compute_output_shape(input_shape) on an instance in any state
ComputeOutputShapeAny ==
    /\ layer.cls \in ConvClasses \cup SpatialClasses
    /\ \E input_shape \in LifecycleShapes(layer) :
          /\ op' = "compute_output_shape"
          /\ arg' = input_shape
          /\ ret' = compute_output_shape(layer, input_shape)
    /\ UNCHANGED <<layer, built, weights, run>>

\* layer.get_config() on an instance in any state
GetConfig_unbuilt ==
    /\ layer.cls \in ConvClasses \cup SpatialClasses
    /\ op' = "get_config"
    /\ arg' = <<>>
    /\ ret' = Ok(get_config(layer))
    /\ built' = FALSE
    /\ UNCHANGED <<layer, weights, run>>

GetConfig ==
    /\ layer.cls \in ConvClasses \cup SpatialClasses
    /\ op' = "get_config"
    /\ arg' = <<>>
    /\ ret' = Ok(get_config(layer))
    /\ UNCHANGED <<layer, built, weights, run>>

\* one class for each build method of the convolution family
LifecycleClasses == {"Conv1D", "Conv2DTranspose", "SeparableConv1D", "DepthwiseConv2D"}

ConstructLifecycle == Construct(LifecycleClasses)

NextLifecycle == ConstructLifecycle \/ BuildAny \/ ComputeOutputShapeAny \/ GetConfig

\* the operations of an instance in any order
SpecLifecycle == Init /\ [][NextLifecycle]_vars

\* the same, on the spatial layers too: they have no build of their own
InstanceClasses == LifecycleClasses \cup SpatialClasses

ConstructInstance == Construct(InstanceClasses)

NextInstance == ConstructInstance \/ BuildAny \/ ComputeOutputShapeAny \/ GetConfig

SpecInstance == Init /\ [][NextInstance]_vars

----------------------------------------------------------------------------
(* The length calculators applied on their own: a forward length is         *)
(* computed from drawn arguments, and the inverse length is computed from   *)
(* the forward result with the same kernel, stride, padding and dilation.   *)

\* the sizes a calculator is applied to
Lengths == {None} \cup {Dim(n) : n \in 0..MaxLen}

\* conv_utils.conv_output_length(input_length, filter_size, padding, stride, dilation)
ConvOutputLength ==
    /\ op = "none"
    /\ \E input_length \in Lengths : \E filter_size \in 1..MaxKernel :
       \E padding \in {"valid", "same", "causal"} :
       \E stride \in 1..MaxStride : \E dilation \in 1..MaxArg :
          /\ op' = "conv_output_length"
          /\ arg' = [input_length |-> input_length, filter_size |-> filter_size,
                     padding |-> padding, stride |-> stride, dilation |-> dilation]
          /\ ret' = conv_output_length(input_length, filter_size, padding, stride,
                                       dilation)
    /\ UNCHANGED <<layer, built, weights, run>>

\* conv_utils.deconv_length(dim_size, stride_size, kernel_size, padding,
\* output_padding, dilation) applied to the forward length; arg keeps the
\* input_length the forward length was computed from
DeconvLength ==
    /\ op = "conv_output_length"
    /\ \E output_padding \in {None} \cup {Dim(n) : n \in 0..(arg.stride - 1)} :
          /\ op' = "deconv_length"
          /\ arg' = [dim_size |-> ret, stride_size |-> arg.stride,
                     kernel_size |-> arg.filter_size, padding |-> arg.padding,
                     output_padding |-> output_padding, dilation |-> arg.dilation,
                     input_length |-> arg.input_length]
          /\ ret' = deconv_length(ret, arg.stride, arg.filter_size, arg.padding,
                                  output_padding, arg.dilation)
    /\ UNCHANGED <<layer, built, weights, run>>

NextCalc == ConvOutputLength \/ DeconvLength

\* the two length calculators
SpecCalc == Init /\ [][NextCalc]_vars

----------------------------------------------------------------------------
(* Vocabulary of the properties *)

\* position of the channel entry and of the i-th spatial entry in a shape of
\* the layout of l
ChannelIndex(l, shape) == IF l.data_format = "channels_first" THEN 2 ELSE Len(shape)

SpatialIndex(l, i) == IF l.data_format = "channels_first" THEN i + 2 ELSE i + 1

Quotients == (0 - (MaxArg * MaxArg + MaxDim + 2))..(MaxDim + 2)

\* floor(a / b) and ceil(a / b) for b > 0
Floor(a, b) == CHOOSE q \in Quotients : q * b <= a /\ a < (q + 1) * b

Ceil(a, b) == CHOOSE q \in Quotients : (q - 1) * b < a /\ a <= q * b

\* the forward output length of the specification
ForwardLength(n, k, padding, s, d) ==
    IF ~n.known THEN None
    ELSE IF padding = "valid" THEN Dim(Floor(n.n - (k + (k - 1) * (d - 1)), s) + 1)
    ELSE Dim(Ceil(n.n, s))

\* the spatial entries of an output shape are the forward lengths of the
\* spatial entries of the input shape
ForwardSpatial(l, input_shape, output_shape) ==
    \A i \in 1..l.rank :
        output_shape[SpatialIndex(l, i)] =
            ForwardLength(input_shape[SpatialIndex(l, i)], l.kernel_size[i],
                          l.padding, l.strides[i], l.dilation_rate[i])

Computed == op = "compute_output_shape"

Built == op = "build" /\ ret.ok

\* the bias of n entries, present if and only if use_bias is set
BiasOf(l, n) == IF l.use_bias THEN <<Weight("bias", <<n>>)>> ELSE <<>>

\* the channel count of the input shape of the last operation
InputChannels == arg[ChannelIndex(layer, arg)]

----------------------------------------------------------------------------
(* Properties *)

C2_ConvBuild ==
    (Built /\ layer.cls \in PlainClasses) =>
        /\ built
        /\ InputChannels.known
        /\ weights = <<Weight("kernel", layer.kernel_size
                                         \o <<InputChannels.n, layer.filters.n>>)>>
                     \o BiasOf(layer, layer.filters.n)

C2_Witness ==
    /\ Built
    /\ layer.cls = "Conv2D"
    /\ layer.data_format = "channels_first"
    /\ ~layer.use_bias
    /\ layer.filters = Dim(1)
    /\ arg = <<None, Dim(2), None, None>>
    /\ weights = <<Weight("kernel", <<1, 2, 2, 1>>)>>

\* the last two entries of a shape exchanged
SwapChannels(shape) ==
    SubSeq(shape, 1, Len(shape) - 2) \o <<shape[Len(shape)], shape[Len(shape) - 1]>>

\* C3: a successful build of Conv2DTranspose/Conv3DTranspose on an input with
\* c channels allocates the kernel kernel_size + (filters, c), which is the
\* kernel of the plain convolution of the same configuration and input with
\* the two channel entries exchanged, and the bias (filters,) if use_bias is
\* set.
C3_TransposeBuild ==
    (Built /\ layer.cls \in TransposeClasses) =>
        /\ built
        /\ InputChannels.known
        /\ weights = <<Weight("kernel", layer.kernel_size
                                         \o <<layer.filters.n, InputChannels.n>>)>>
                     \o BiasOf(layer, layer.filters.n)
        /\ Conv_build(layer, arg).ok
        /\ weights[1].shape = SwapChannels(Conv_build(layer, arg).v[1].shape)

C3_Witness ==
    /\ Built
    /\ layer.cls = "Conv3DTranspose"
    /\ layer.use_bias
    /\ layer.filters = Dim(1)
    /\ layer.data_format = "channels_last"
    /\ InputChannels = Dim(2)
    /\ weights = <<Weight("kernel", <<1, 2, 1, 1, 2>>), Weight("bias", <<1>>)>>

\* C4: DepthwiseConv2D has no filters; built on an input with c channels it
\* allocates the depthwise kernel kernel_size + (c, depth_multiplier), the
\* bias (c * depth_multiplier,) when use_bias is set, and no pointwise
\* kernel; compute_output_shape on an input with c channels returns
\* c * depth_multiplier channels and the forward lengths of the spatial
\* entries, in both layouts.
C4_Depthwise ==
    (layer.cls = "DepthwiseConv2D") =>
        /\ layer.filters = None
        /\ Built =>
              /\ InputChannels.known
              /\ weights = <<Weight("depthwise_kernel",
                                    layer.kernel_size
                                    \o <<InputChannels.n, layer.depth_multiplier>>)>>
                           \o BiasOf(layer, InputChannels.n * layer.depth_multiplier)
        /\ (Computed /\ InputChannels.known) =>
              /\ ret.ok
              /\ Len(ret.v) = Len(arg)
              /\ ret.v[1] = arg[1]
              /\ ret.v[ChannelIndex(layer, ret.v)] =
                     Dim(InputChannels.n * layer.depth_multiplier)
              /\ ForwardSpatial(layer, arg, ret.v)

C4_Witness ==
    /\ Computed
    /\ layer.cls = "DepthwiseConv2D"
    /\ layer.data_format = "channels_first"
    /\ layer.depth_multiplier = 2
    /\ layer.padding = "same"
    /\ layer.strides = <<1, 2>>
    /\ arg = <<None, Dim(2), Dim(2), Dim(1)>>
    /\ ret = Ok(<<None, Dim(4), Dim(2), Dim(1)>>)

\* C5: SeparableConv1D/SeparableConv2D built on an input with c channels
\* allocate the depthwise kernel kernel_size + (c, depth_multiplier), the
\* pointwise kernel (1,)*rank + (depth_multiplier * c, filters) and the bias
\* (filters,) when use_bias is set; compute_output_shape returns filters
\* channels and the spatial entries of the depthwise convolution of the same
\* kernel_size, strides, padding and dilation_rate.
C5_Separable ==
    (layer.cls \in SeparableClasses) =>
        /\ Built =>
              /\ InputChannels.known
              /\ weights =
                     <<Weight("depthwise_kernel",
                              layer.kernel_size
                              \o <<InputChannels.n, layer.depth_multiplier>>),
                       Weight("pointwise_kernel",
                              [i \in 1..layer.rank |-> 1]
                              \o <<layer.depth_multiplier * InputChannels.n,
                                   layer.filters.n>>)>>
                     \o BiasOf(layer, layer.filters.n)
        /\ Computed =>
              /\ ret.ok
              /\ Len(ret.v) = Len(arg)
              /\ ret.v[1] = arg[1]
              /\ ret.v[ChannelIndex(layer, ret.v)] = Dim(layer.filters.n)
              /\ ForwardSpatial(layer, arg, ret.v)
              /\ (layer.rank = 2 /\ InputChannels.known) =>
                    LET depthwise == DepthwiseConv2D_compute_output_shape(layer, arg)
                    IN  /\ depthwise.ok
                        /\ \A i \in 1..2 :
                               depthwise.v[SpatialIndex(layer, i)] =
                                   ret.v[SpatialIndex(layer, i)]

C5_Witness ==
    /\ Built
    /\ layer.cls = "SeparableConv2D"
    /\ layer.depth_multiplier = 2
    /\ layer.filters = Dim(1)
    /\ layer.kernel_size = <<1, 2>>
    /\ InputChannels = Dim(2)
    /\ weights = <<Weight("depthwise_kernel", <<1, 2, 2, 2>>),
                   Weight("pointwise_kernel", <<1, 1, 4, 1>>),
                   Weight("bias", <<1>>)>>

\* C6: compute_output_shape of UpSampling1D/2D/3D multiplies every known
\* spatial entry by the size factor of its axis, leaves None entries None and
\* the batch and channel entries unchanged, in both layouts; the layer has no
\* parameters.
C6_UpSampling ==
    (layer.cls \in UpSamplingClasses) =>
        /\ weights = <<>>
        /\ Computed =>
              /\ ret.ok
              /\ Len(ret.v) = Len(arg)
              /\ ret.v[1] = arg[1]
              /\ ret.v[ChannelIndex(layer, ret.v)] = InputChannels
              /\ \A i \in 1..layer.rank :
                     LET n == arg[SpatialIndex(layer, i)]
                     IN  ret.v[SpatialIndex(layer, i)] =
                             IF n.known THEN Dim(n.n * layer.size[i]) ELSE None

C6_Witness ==
    /\ Computed
    /\ layer.cls = "UpSampling3D"
    /\ layer.data_format = "channels_first"
    /\ layer.size = <<1, 2, 1>>
    /\ arg = <<Dim(2), Dim(1), Dim(2), Dim(2), None>>
    /\ ret = Ok(<<Dim(2), Dim(1), Dim(2), Dim(4), None>>)

\* C7: compute_output_shape of ZeroPadding1D/2D/3D adds before + after of the
\* padding pair of its axis to every known spatial entry, leaves None entries
\* None and the batch and channel entries unchanged, in both layouts; an
\* integer padding p is normalised to the pair (p, p) on every spatial axis.
C7_ZeroPadding ==
    (layer.cls \in ZeroPaddingClasses) =>
        /\ Computed =>
              /\ ret.ok
              /\ Len(ret.v) = Len(arg)
              /\ ret.v[1] = arg[1]
              /\ ret.v[ChannelIndex(layer, ret.v)] = InputChannels
              /\ \A i \in 1..layer.rank :
                     LET n == arg[SpatialIndex(layer, i)]
                     IN  ret.v[SpatialIndex(layer, i)] =
                             IF n.known
                             THEN Dim(n.n + layer.padding[i][1] + layer.padding[i][2])
                             ELSE None
        /\ (op = "init" /\ IsInt(arg.a.padding)) =>
              layer.padding =
                  [i \in 1..layer.rank |-> <<arg.a.padding.int, arg.a.padding.int>>]

C7_Witness ==
    /\ Computed
    /\ layer.cls = "ZeroPadding2D"
    /\ layer.data_format = "channels_first"
    /\ layer.padding = <<<<1, 1>>, <<2, 1>>>>
    /\ arg = <<None, Dim(1), Dim(2), Dim(1)>>
    /\ ret = Ok(<<None, Dim(1), Dim(4), Dim(4)>>)

\* the crop of every known spatial entry of the input fits into it
CropFits ==
    \A i \in 1..layer.rank :
        LET n == arg[SpatialIndex(layer, i)]
        IN  n.known => layer.cropping[i][1] + layer.cropping[i][2] <= n.n

\* C8: whenever the crop fits, compute_output_shape of Cropping1D/2D/3D
\* returns n - (before + after) on every known spatial axis, leaves None
\* entries None and the batch and channel entries unchanged, in both layouts.
C8_CroppingFits ==
    (layer.cls \in CroppingClasses /\ Computed /\ CropFits) =>
        /\ ret.ok
        /\ Len(ret.v) = Len(arg)
        /\ ret.v[1] = arg[1]
        /\ ret.v[ChannelIndex(layer, ret.v)] = InputChannels
        /\ \A i \in 1..layer.rank :
               LET n == arg[SpatialIndex(layer, i)]
               IN  ret.v[SpatialIndex(layer, i)] =
                       IF n.known
                       THEN Dim(n.n - (layer.cropping[i][1] + layer.cropping[i][2]))
                       ELSE None

C8_Witness ==
    /\ Computed
    /\ layer.cls = "Cropping2D"
    /\ layer.data_format = "channels_first"
    /\ layer.cropping = <<<<0, 1>>, <<1, 1>>>>
    /\ arg = <<Dim(2), Dim(1), Dim(2), Dim(2)>>
    /\ ret = Ok(<<Dim(2), Dim(1), Dim(1), Dim(0)>>)

\* C9: compute_output_shape of Cropping1D/2D/3D raises whenever the crop of
\* some known spatial entry exceeds it, and the constructor never raises for
\* the size of the crop.
C9_CroppingRaises ==
    /\ (layer.cls \in CroppingClasses /\ Computed /\ ~CropFits) => ~ret.ok
    /\ (op = "init" /\ arg.cls \in CroppingClasses) => ret.ok

\* some spatial entry of the input shape of the last operation is None
SomeSpatialNone == \E i \in 1..layer.rank : ~arg[SpatialIndex(layer, i)].known

\* every None spatial entry of the input is None in the returned shape
NoneStaysNone ==
    /\ ret.ok
    /\ \A i \in 1..layer.rank :
           ~arg[SpatialIndex(layer, i)].known => ret.v[SpatialIndex(layer, i)] = None

\* both calculators return None for the input size None, whatever the other
\* arguments are
CalculatorsPropagateNone ==
    \A k, s, d \in 1..MaxArg : \A p \in {"valid", "same", "causal"} :
        /\ conv_output_length(None, k, p, s, d) = None
        /\ \A o \in {None} \cup {Dim(v) : v \in 0..MaxArg} :
               deconv_length(None, s, k, p, o, d) = Ok(None)

ChannelNeeded == layer.cls = "DepthwiseConv2D" /\ ~InputChannels.known

CausalTranspose == layer.cls \in TransposeClasses /\ layer.padding = "causal"

ToLast(shape) == <<shape[1]>> \o SubSeq(shape, 3, Len(shape)) \o <<shape[2]>>

\* the layer of the configuration of the current layer and channels_last layout
LastLayer == [layer EXCEPT !.data_format = "channels_last"]

\* C11: for every layer and every input (B, C, S...), compute_output_shape
\* under channels_first and compute_output_shape of the same configuration
\* under channels_last on (B, S..., C) both fail, or both succeed with the
\* same batch entry, the same channel entry and the same spatial entries in
\* the same order.
C11_LayoutSymmetry ==
    (Computed /\ layer.data_format = "channels_first") =>
        LET r == compute_output_shape(LastLayer, ToLast(arg))
        IN  IF ret.ok THEN r = Ok(ToLast(ret.v)) ELSE r = ret

C11_Witness ==
    /\ Computed
    /\ layer.cls = "Cropping3D"
    /\ layer.data_format = "channels_first"
    /\ layer.cropping = <<<<1, 0>>, <<2, 0>>, <<0, 0>>>>
    /\ arg = <<None, Dim(1), Dim(2), Dim(2), Dim(2)>>
    /\ ret = Ok(<<None, Dim(1), Dim(1), Dim(0), Dim(2)>>)
    /\ compute_output_shape(LastLayer, ToLast(arg))
           = Ok(<<None, Dim(1), Dim(0), Dim(2), Dim(1)>>)

\* C12: with output_padding None, the inverse length of the forward length
\* of L is L again, for VALID padding with stride 1, dilation 1 and
\* L >= K >= 1, and for SAME padding with dilation 1 whenever the stride
\* divides L; in particular 28 -> 14 -> 28 for K = 3 and stride 2.
C12_RoundTrip ==
    /\ deconv_length(conv_output_length(Dim(28), 3, "same", 2, 1), 2, 3, "same", None, 1)
           = Ok(Dim(28))
    /\ (op = "deconv_length" /\ ~arg.output_padding.known /\ arg.input_length.known
        /\ arg.dilation = 1) =>
          /\ (arg.padding = "valid" /\ arg.stride_size = 1
              /\ arg.input_length.n >= arg.kernel_size) => ret = Ok(arg.input_length)
          /\ (arg.padding = "same" /\ arg.input_length.n % arg.stride_size = 0) =>
                 ret = Ok(arg.input_length)

C12_Witness ==
    /\ op = "deconv_length"
    /\ arg = [dim_size |-> Dim(4), stride_size |-> 1, kernel_size |-> 3,
              padding |-> "valid", output_padding |-> None, dilation |-> 1,
              input_length |-> Dim(6)]
    /\ ret = Ok(Dim(6))

Called == op = "call"

\* C13: for Conv2DTranspose and Conv3DTranspose and every fully known input
\* shape, the output shape call hands to the backend is the shape
\* compute_output_shape returns for that input shape: the same batch entry,
\* filters at the channel position and the same spatial entries at the same
\* positions; where the inverse length is not defined, neither produces a
\* shape.
C13_CallMatchesComputeOutputShape ==
    (Called /\ layer.cls \in TransposeClasses) =>
        /\ built
        /\ IF ret.ok
           THEN /\ compute_output_shape(layer, arg) = ret
                /\ ret.v[ChannelIndex(layer, ret.v)] = layer.filters
                /\ \A i \in 1..layer.rank : ret.v[SpatialIndex(layer, i)].known
           ELSE ~compute_output_shape(layer, arg).ok

C13_Witness ==
    /\ Called
    /\ layer.cls = "Conv2DTranspose"
    /\ layer.data_format = "channels_first"
    /\ layer.padding = "valid"
    /\ layer.kernel_size = <<1, 2>>
    /\ layer.strides = <<2, 2>>
    /\ layer.dilation_rate = <<2, 2>>
    /\ layer.output_padding = Some(<<1, 1>>)
    /\ arg = <<Dim(2), Dim(1), Dim(2), Dim(1)>>
    /\ ret = Ok(<<Dim(2), layer.filters, Dim(4), Dim(4)>>)
    /\ compute_output_shape(layer, arg) = ret

BuildReturned == op = "build"

\* a build that failed left the layer unbuilt and allocated nothing
FailedUnbuilt == ~ret.ok /\ ~built /\ weights = <<>>

\* C14: for every convolution-family layer, build on an input shape whose
\* channel entry (the second entry for channels_first, the last entry for
\* channels_last) is None fails, and the layer is then still unbuilt with no
\* parameter allocated.
C14_BuildNeedsChannels ==
    (BuildReturned /\ layer.cls \in ConvClasses /\ ~InputChannels.known) =>
        FailedUnbuilt

\* C15: build of Conv2DTranspose fails on every input shape whose rank is
\* not 4 and build of Conv3DTranspose on every input shape whose rank is not
\* 5; no parameter is allocated and the layer stays unbuilt.
C15_TransposeBuildRank ==
    (BuildReturned /\ layer.cls \in TransposeClasses /\ Len(arg) # layer.rank + 2) =>
        /\ ret = Err("ValueError")
        /\ FailedUnbuilt

C15_Witness ==
    /\ BuildReturned
    /\ layer.cls = "Conv3DTranspose"
    /\ layer.data_format = "channels_last"
    /\ arg = <<Dim(2), Dim(1), Dim(1), Dim(1), Dim(1), Dim(2)>>
    /\ ret = Err("ValueError")
    /\ ~built
    /\ weights = <<>>

\* C16: build of SeparableConv1D, SeparableConv2D and DepthwiseConv2D fails
\* on every input shape whose rank is not the declared rank + 2, lower or
\* higher, and the layer stays unbuilt.
C16_SeparableBuildRank ==
    (BuildReturned /\ layer.cls \in SeparableClasses \cup DepthwiseClasses
     /\ Len(arg) # layer.rank + 2) => FailedUnbuilt

Constructed == op = "init"

\* entry i of a constructor argument that is an integer or a tuple
Entry(value, i) == IF IsInt(value) THEN value.int ELSE value.tup[i]

\* C17: with the other arguments valid, constructing Conv2DTranspose or
\* Conv3DTranspose with an explicit output_padding fails if and only if on
\* some axis i output_padding[i] >= strides[i]; output_padding None is
\* accepted; and no instance ever holds an output_padding that is not below
\* the stride on every axis, so nothing is left to report at build or
\* compute_output_shape.
C17_OutputPadding ==
    /\ (Constructed /\ arg.cls \in TransposeClasses) =>
          IF IsSet(arg.a.output_padding)
          THEN ~ret.ok <=>
                   \E i \in 1..RankOf(arg.cls) :
                       Entry(arg.a.output_padding.some, i) >= Entry(arg.a.strides, i)
          ELSE ret.ok /\ layer.output_padding = None
    /\ (layer.cls \in TransposeClasses /\ IsSet(layer.output_padding)) =>
          \A i \in 1..layer.rank : layer.output_padding.some[i] < layer.strides[i]

C17_Witness ==
    /\ Constructed
    /\ arg.cls = "Conv2DTranspose"
    /\ arg.a.output_padding = Some(IntArg(1))
    /\ arg.a.strides = TupArg(<<1, 2>>)
    /\ ret = Err("ValueError")
    /\ layer = NoLayer

\* C18: constructing a Conv1D whose padding string denotes causal padding,
\* in any letter case, together with the channels_first layout fails, so no
\* Conv1D with causal padding and channels_first layout ever exists.
C18_CausalChannelsFirst ==
    /\ (Constructed /\ arg.cls = "Conv1D" /\ Lower(arg.a.padding) = "causal"
        /\ arg.a.data_format = "channels_first") => ~ret.ok
    /\ ~(layer.cls = "Conv1D" /\ layer.padding = "causal"
         /\ layer.data_format = "channels_first")

\* C19: constructing a convolution-family layer of rank 2 or 3 with causal
\* padding fails, so every constructed layer with causal padding has rank 1
\* and channels_last layout.
C19_CausalOnlyRank1 ==
    /\ (Constructed /\ arg.cls \in ConvClasses /\ RankOf(arg.cls) > 1
        /\ Lower(arg.a.padding) = "causal") => ~ret.ok
    /\ (layer.cls \in ConvClasses /\ layer.padding = "causal") =>
          layer.rank = 1 /\ layer.data_format = "channels_last"

\* C20: in every sequence of builds (successful or failed),
\* compute_output_shape and get_config calls on a convolution-family
\* instance, the instance is unbuilt until its first successful build, every
\* successful build leaves it built, and once built it is never unbuilt
\* again.
C20_Lifecycle ==
    /\ ~built
    /\ [][/\ built => built'
          /\ (~built /\ built') => (op' = "build" /\ ret'.ok)
          /\ (op' = "build" /\ ret'.ok) => built']_vars

C20_Witness ==
    /\ built
    /\ op = "build"
    /\ ret = Err("ValueError")
    /\ layer.cls = "DepthwiseConv2D"
    /\ Builds(weights) = 1

\* the input channel count the first allocated kernel was built for
FrozenInputDim ==
    IF layer.cls \in TransposeClasses
    THEN weights[1].shape[layer.rank + 2]
    ELSE weights[1].shape[layer.rank + 1]

\* C21: in every sequence of operations the parameter shapes are produced
\* only by the first successful build, and a later successful build, even
\* with another channel count, leaves the allocated parameters and the
\* frozen input channel count as they are.
C21_BuiltOnce ==
    (layer.cls \in ConvClasses /\ built) =>
        /\ Builds(weights) = 1
        /\ (op = "build" /\ ret.ok) => InputChannels.n = FrozenInputDim

\* an instance of a convolution-family or spatial class exists
Instantiated == layer.cls \in ConvClasses \cup SpatialClasses

\* C22: in any sequence of build, compute_output_shape and get_config calls
\* on a convolution-family or spatial layer the configuration fields never
\* change; compute_output_shape and get_config leave the built flag and the
\* parameters unchanged; and the result of compute_output_shape is determined
\* by the configuration and the input shape alone, whether the layer is built
\* or not and whatever shape it was built on.
C22_Frame ==
    [][Instantiated =>
          /\ layer' = layer
          /\ op' \in {"compute_output_shape", "get_config"} =>
                 (built' = built /\ weights' = weights)
          /\ op' = "compute_output_shape" =>
                 ret' = compute_output_shape(layer, arg')]_vars

\* compute_output_shape after a build on a shape with another channel count
C22_Witness ==
    /\ built
    /\ Computed
    /\ ret.ok
    /\ InputChannels.known
    /\ InputChannels.n # FrozenInputDim

\* C23: for every convolution-family and spatial layer, built or not,
\* constructing the class from the mapping get_config returns succeeds and
\* yields an instance with the same configuration fields, whose get_config
\* is the same mapping.
C23_ConfigRoundTrip ==
    op = "get_config" =>
        LET reconstruction == from_config(layer.cls, ret.v)
        IN  /\ reconstruction.ok
            /\ reconstruction.v = layer
            /\ get_config(reconstruction.v) = ret.v

----------------------------------------------------------------------------
(* Reshape and Flatten of keras/layers/core.py.  A target shape is a tuple  *)
(* of integers; the entries of an input shape are None or known, and a      *)
(* known entry may be 0.                                                    *)

\* largest known entry of an input shape and of a target shape
MaxSize == 4

\* largest number of non-batch entries of an input shape and of entries of a
\* target shape
MaxAxes == 2

\* np.prod of a tuple of integers
RECURSIVE Prod(_)
Prod(s) == IF s = <<>> THEN 1 ELSE Head(s) * Prod(Tail(s))

\* the product of the non-negative entries of a tuple of integers
RECURSIVE ProdNonNegative(_)
ProdNonNegative(s) ==
    IF s = <<>> THEN 1
    ELSE (IF Head(s) < 0 THEN 1 ELSE Head(s)) * ProdNonNegative(Tail(s))

\* the known sizes of a tuple of known entries
Sizes(shape) == [i \in 1..Len(shape) |-> shape[i].n]

\* Reshape.__init__
Reshape_init(a) == Ok([cls |-> "Reshape", target_shape |-> a.target_shape])

\* Reshape._fix_unknown_dimension without the divisibility check
fix_unknown_dimension_nodivide(input_shape, output_shape) ==
    LET unknown == {i \in 1..Len(output_shape) : output_shape[i] < 0}
        known == ProdNonNegative(output_shape)
        original == Prod(input_shape)
    IN  IF Cardinality(unknown) > 1 THEN Err("ValueError")
        ELSE IF unknown # {}
        THEN IF known = 0 THEN Err("ValueError")
             ELSE Ok([i \in 1..Len(output_shape) |->
                         IF i \in unknown THEN original \div known
                         ELSE output_shape[i]])
        ELSE IF original # known THEN Err("ValueError")
        ELSE Ok(output_shape)

\* Reshape._fix_unknown_dimension: input_shape and output_shape are tuples
\* of integers
fix_unknown_dimension(input_shape, output_shape) ==
    LET unknown == {i \in 1..Len(output_shape) : output_shape[i] < 0}
        known == ProdNonNegative(output_shape)
        original == Prod(input_shape)
    IN  IF Cardinality(unknown) > 1 THEN Err("ValueError")
        ELSE IF unknown # {}
        THEN IF known = 0 \/ original % known # 0 THEN Err("ValueError")
             ELSE Ok([i \in 1..Len(output_shape) |->
                         IF i \in unknown THEN original \div known
                         ELSE output_shape[i]])
        ELSE IF original # known THEN Err("ValueError")
        ELSE Ok(output_shape)

\* Reshape.compute_output_shape
Reshape_compute_output_shape(l, input_shape) ==
    IF \E i \in 2..Len(input_shape) : input_shape[i] = None
    THEN Ok(<<input_shape[1]>> \o
            [i \in 1..Len(l.target_shape) |->
                IF l.target_shape[i] # -1 THEN Dim(l.target_shape[i]) ELSE None])
    ELSE LET fixed == fix_unknown_dimension(Sizes(Tail(input_shape)),
                                            l.target_shape)
         IN  IF ~fixed.ok THEN fixed
             ELSE Ok(<<input_shape[1]>> \o
                     [i \in 1..Len(fixed.v) |-> Dim(fixed.v[i])])

\* Flatten.__init__
Flatten_init(a) ==
    LET df == normalize_data_format(a.data_format)
    IN  IF ~df.ok THEN df
        ELSE Ok([cls |-> "Flatten", data_format |-> df.v])

\* the truth value of a shape entry: None and 0 are false
Truthy(dim) == dim # None /\ dim.n # 0

\* Flatten.compute_output_shape
Flatten_compute_output_shape(l, input_shape) ==
    IF \E i \in 2..Len(input_shape) : ~Truthy(input_shape[i])
    THEN Err("ValueError")
    ELSE Ok(<<input_shape[1], Dim(Prod(Sizes(Tail(input_shape))))>>)

\* the target shapes
TargetShapes ==
    UNION {[1..n -> -2..MaxSize] : n \in 1..MaxAxes}

\* the input shapes: a batch entry and up to MaxAxes further entries
SizeValues == {None} \cup {Dim(n) : n \in 0..MaxSize}

InputShapes ==
    {<<batch>> \o s : batch \in {None, Dim(1)},
                      s \in UNION {[1..n -> SizeValues] : n \in 1..MaxAxes}}

\* Reshape(target_shape), Flatten(data_format)
ConstructReshape ==
    /\ op = "none"
    /\ \E a \in [target_shape : TargetShapes] :
          LET r == Reshape_init(a)
          IN  /\ layer' = r.v
              /\ op' = "init"
              /\ arg' = [cls |-> "Reshape", a |-> a]
              /\ ret' = Ok(<<>>)
    /\ UNCHANGED <<built, weights, run>>

ConstructFlatten ==
    /\ op = "none"
    /\ \E a \in [data_format : FormatArgs] :
          LET r == Flatten_init(a)
          IN  /\ layer' = r.v
              /\ op' = "init"
              /\ arg' = [cls |-> "Flatten", a |-> a]
              /\ ret' = Ok(<<>>)
    /\ UNCHANGED <<built, weights, run>>

\* layer.compute_output_shape(input_shape) of a Reshape
ReshapeComputeOutputShape ==
    /\ Fresh
    /\ layer.cls = "Reshape"
    /\ \E input_shape \in InputShapes :
          /\ op' = "compute_output_shape"
          /\ arg' = input_shape
          /\ ret' = Reshape_compute_output_shape(layer, input_shape)
    /\ UNCHANGED <<layer, built, weights, run>>

\* layer.compute_output_shape(input_shape) of a Flatten
FlattenComputeOutputShape ==
    /\ Fresh
    /\ layer.cls = "Flatten"
    /\ \E input_shape \in InputShapes :
          /\ op' = "compute_output_shape"
          /\ arg' = input_shape
          /\ ret' = Flatten_compute_output_shape(layer, input_shape)
    /\ UNCHANGED <<layer, built, weights, run>>

NextReshape ==
    \/ ConstructReshape
    \/ ConstructFlatten
    \/ ReshapeComputeOutputShape
    \/ FlattenComputeOutputShape

\* Reshape and Flatten
SpecReshape == Init /\ [][NextReshape]_vars

\* the last operation was compute_output_shape of a layer of class cls
ComputedBy(cls) == layer.cls = cls /\ op = "compute_output_shape"

\* every non-batch entry of the input shape is known
InputKnown == \A i \in 2..Len(arg) : arg[i] # None

\* C24: Reshape.compute_output_shape on an input whose non-batch entries are
\* all known returns (batch,) + target_shape with the single negative target
\* entry replaced by prod(input non-batch) // prod(non-negative target
\* entries), so that the product of the output's non-batch entries is the
\* product of the input's; it raises if more than one target entry is
\* negative, if the product of the known target entries is 0 or does not
\* divide the input total, or if no entry is negative and the products differ.
C24_ReshapeKnown ==
    (ComputedBy("Reshape") /\ InputKnown) =>
        LET target == layer.target_shape
            negative == {i \in 1..Len(target) : target[i] < 0}
            known == ProdNonNegative(target)
            total == Prod(Sizes(Tail(arg)))
        IN  IF \/ Cardinality(negative) > 1
               \/ negative # {} /\ (known = 0 \/ total % known # 0)
               \/ negative = {} /\ total # known
            THEN ~ret.ok
            ELSE /\ ret.ok
                 /\ ret.v = <<arg[1]>> \o
                        [i \in 1..Len(target) |->
                            IF i \in negative THEN Dim(total \div known)
                            ELSE Dim(target[i])]
                 /\ Prod(Sizes(Tail(ret.v))) = total

\* a negative entry replaced by the quotient 8 // 2
C24_Witness ==
    /\ ComputedBy("Reshape")
    /\ InputKnown
    /\ ret.ok
    /\ layer.target_shape = <<-1, 2>>
    /\ ret.v = <<None, Dim(4), Dim(2)>>

\* C25: Flatten.compute_output_shape returns (batch, product of the
\* non-batch entries), the batch entry unchanged, and raises if and only if
\* some non-batch entry of the input shape is None.
C25_Flatten ==
    ComputedBy("Flatten") =>
        IF InputKnown
        THEN ret = Ok(<<arg[1], Dim(Prod(Sizes(Tail(arg))))>>)
        ELSE ~ret.ok

\* C30: Reshape.compute_output_shape never returns a shape with a negative
\* non-batch entry: each negative entry of target_shape has been replaced by
\* a computed non-negative size, or by None.
C30_ReshapeNonNegative ==
    (ComputedBy("Reshape") /\ ret.ok) =>
        \A i \in 2..Len(ret.v) : ret.v[i] = None \/ ret.v[i].n >= 0

----------------------------------------------------------------------------
(* Concat of keras/layers/core.py.  A cropping argument is None or a list   *)
(* with one entry per axis: a crop mode, or NoMode for Python's None.       *)

\* largest known entry of an input shape of Concat
MaxConcatDim == 2

\* largest number of entries of an input shape of Concat and of a cropping
\* list
MaxConcatRank == 3

NoMode == "None"

CropModes == {"lower", "center", "upper"}

\* K.image_dim_ordering()
image_dim_ordering == "tf"

\* the position of s[i] in a Python list of n entries, 1-based; 0 if the
\* index is out of range
Position(n, i) ==
    IF 0 <= i /\ i < n THEN i + 1
    ELSE IF -n <= i /\ i < 0 THEN n + i + 1
    ELSE 0

\* Concat.__init__
Concat_init(a) ==
    LET dim_ordering == IF a.dim_ordering = "default" THEN image_dim_ordering
                        ELSE a.dim_ordering
    IN  IF dim_ordering \notin {"tf", "th"} THEN Err("ValueError")
        ELSE IF ~IsSet(a.cropping)
        THEN Ok([cls |-> "Concat", dim_ordering |-> dim_ordering,
                 axis |-> a.axis, cropping |-> None])
        ELSE LET cropping == a.cropping.some
                 at == Position(Len(cropping), a.axis)
             IN  IF at = 0 THEN Err("IndexError")
                 ELSE Ok([cls |-> "Concat", dim_ordering |-> dim_ordering,
                          axis |-> a.axis,
                          cropping |-> Some([cropping EXCEPT ![at] = NoMode])])

\* the smallest entry of a tuple of known sizes
RECURSIVE MinOf(_)
MinOf(s) ==
    IF Len(s) = 1 THEN s[1]
    ELSE LET m == MinOf(Tail(s)) IN IF Head(s) <= m THEN Head(s) ELSE m

\* the sizes of the inputs on one axis: zip(*input_shapes)[axis]
OnAxis(input_shapes, i) == [k \in 1..Len(input_shapes) |-> input_shapes[k][i]]

\* autocrop_array_shapes
autocrop_array_shapes(input_shapes, cropping) ==
    IF ~IsSet(cropping) THEN Ok(input_shapes)
    ELSE
    LET ndim == Len(input_shapes[1])
        padded == [i \in 1..Max(ndim, Len(cropping.some)) |->
                      IF i <= Len(cropping.some) THEN cropping.some[i] ELSE NoMode]
        Cropped(i) ==
            LET sh == OnAxis(input_shapes, i)
            IN  IF \E k \in 1..Len(sh) : sh[k] = None THEN None
                ELSE Dim(MinOf(Sizes(sh)))
    IN  IF \E k \in 1..Len(input_shapes) : Len(input_shapes[k]) # ndim
        THEN Err("ValueError")
        ELSE IF \E i \in 1..ndim : padded[i] \notin CropModes \cup {NoMode}
        THEN Err("ValueError")
        ELSE Ok([k \in 1..Len(input_shapes) |->
                    [i \in 1..ndim |->
                        IF padded[i] = NoMode THEN input_shapes[k][i]
                        ELSE Cropped(i)]])

\* next((s for s in sizes if s is not None), None)
RECURSIVE FirstKnown(_)
FirstKnown(sizes) ==
    IF sizes = <<>> THEN None
    ELSE IF Head(sizes) # None THEN Head(sizes)
    ELSE FirstKnown(Tail(sizes))

\* sum of a tuple of integers
RECURSIVE SumOf(_)
SumOf(s) == IF s = <<>> THEN 0 ELSE Head(s) + SumOf(Tail(s))

\* the shortest length of the tuples of a tuple: the length of zip(*shapes)
RECURSIVE MinLen(_)
MinLen(shapes) ==
    IF Len(shapes) = 1 THEN Len(shapes[1])
    ELSE LET m == MinLen(Tail(shapes))
         IN  IF Len(Head(shapes)) <= m THEN Len(Head(shapes)) ELSE m

\* match(shape1, shape2) in Concat.compute_output_shape
Concat_match(l, shape1, shape2) ==
    LET axis == IF l.axis >= 0 THEN l.axis ELSE Len(shape1) + l.axis
    IN  /\ Len(shape1) = Len(shape2)
        /\ \A i \in 1..Len(shape1) :
              \/ i - 1 = axis
              \/ shape1[i] = None
              \/ shape2[i] = None
              \/ shape1[i] = shape2[i]

\* Concat.compute_output_shape: input_shape is the list of the input shapes
Concat_compute_output_shape(l, input_shape) ==
    LET cropped == autocrop_array_shapes(input_shape, l.cropping)
        input_shapes == cropped.v
        output_shape == [i \in 1..MinLen(input_shapes) |->
                            FirstKnown(OnAxis(input_shapes, i))]
        at(n) == Position(n, l.axis)
        sizes == [k \in 1..Len(input_shapes) |->
                     input_shapes[k][at(Len(input_shapes[k]))]]
        concat_size == IF \E k \in 1..Len(sizes) : sizes[k] = None THEN None
                       ELSE Dim(SumOf(Sizes(sizes)))
    IN  IF ~cropped.ok THEN cropped
        ELSE IF \E k \in 1..Len(input_shapes) :
                    ~Concat_match(l, input_shapes[k], output_shape)
        THEN Err("ValueError")
        ELSE IF \E k \in 1..Len(input_shapes) : at(Len(input_shapes[k])) = 0
        THEN Err("IndexError")
        ELSE Ok([output_shape EXCEPT ![at(Len(output_shape))] = concat_size])

\* the axis arguments
AxisArgs == (-MaxConcatRank)..(MaxConcatRank - 1)

\* the cropping arguments
CroppingArgs ==
    {None} \cup
    {Some(c) : c \in UNION {[1..n -> {NoMode, "lower"}] : n \in 1..MaxConcatRank}}

\* the lists of two input shapes of equal rank
ConcatDims == {None} \cup {Dim(n) : n \in 1..MaxConcatDim}

ConcatInputs ==
    UNION {{<<s1, s2>> : s1, s2 \in [1..n -> ConcatDims]} :
               n \in (MaxConcatRank - 1)..MaxConcatRank}

\* Concat(axis, cropping, dim_ordering)
ConstructConcat ==
    /\ op = "none"
    /\ \E a \in [axis : AxisArgs, cropping : CroppingArgs,
                  dim_ordering : {"default", "th"}] :
          LET r == Concat_init(a)
          IN  /\ layer' = IF r.ok THEN r.v ELSE NoLayer
              /\ op' = "init"
              /\ arg' = [cls |-> "Concat", a |-> a]
              /\ ret' = IF r.ok THEN Ok(<<>>) ELSE r
    /\ UNCHANGED <<built, weights, run>>

\* layer.compute_output_shape(input_shape) of a Concat
ConcatComputeOutputShape ==
    /\ Fresh
    /\ layer.cls = "Concat"
    /\ \E input_shape \in ConcatInputs :
          /\ op' = "compute_output_shape"
          /\ arg' = input_shape
          /\ ret' = Concat_compute_output_shape(layer, input_shape)
    /\ UNCHANGED <<layer, built, weights, run>>

NextConcat == ConstructConcat \/ ConcatComputeOutputShape

\* Concat
SpecConcat == Init /\ [][NextConcat]_vars

\* the concatenation axis of the last operation, as a position of its input
\* shapes; 0 if the shapes have no such axis
ConcatAxis == Position(Len(arg[1]), layer.axis)

\* the crop mode the layer holds for the axis at position i
ModeOf(l, i) ==
    IF IsSet(l.cropping) /\ i <= Len(l.cropping.some) THEN l.cropping.some[i]
    ELSE NoMode

\* C26: Concat.compute_output_shape, for input shapes of equal rank: on the
\* concatenation axis (positive or negative index) the result is the sum of
\* the inputs' sizes, or None if any of them is None; on every other axis it
\* is the first non-None size among the inputs after auto-cropping (an axis
\* with a crop mode takes the minimum size over all inputs, or None if any is
\* unknown); an error is raised if two inputs have different known sizes on
\* a non-concatenation axis that is not cropped; cropping is never applied on
\* the concatenation axis.
C26_Concat ==
    (ComputedBy("Concat") /\ ConcatAxis # 0) =>
        LET Known(sh) == \A k \in 1..Len(sh) : sh[k] # None
            Expected(i) ==
                LET sh == OnAxis(arg, i)
                IN  IF i = ConcatAxis
                    THEN IF Known(sh) THEN Dim(SumOf(Sizes(sh))) ELSE None
                    ELSE IF ModeOf(layer, i) \in CropModes
                    THEN IF Known(sh) THEN Dim(MinOf(Sizes(sh))) ELSE None
                    ELSE FirstKnown(sh)
            Conflict(i) ==
                /\ i # ConcatAxis
                /\ ModeOf(layer, i) \notin CropModes
                /\ \E j, k \in 1..Len(arg) :
                      /\ arg[j][i] # None
                      /\ arg[k][i] # None
                      /\ arg[j][i] # arg[k][i]
        IN  IF \E i \in 1..Len(arg[1]) : Conflict(i) THEN ~ret.ok
            ELSE ret = Ok([i \in 1..Len(arg[1]) |-> Expected(i)])

----------------------------------------------------------------------------
(* Configuration of the layers of keras/layers/core.py.  The name and the   *)
(* other entries of the base class, and the activation, initializer,        *)
(* regularizer and constraint entries of Dense, are not modelled.           *)

\* a parameter of a constructor: required, or optional with a default
Required == [required |-> TRUE]

Default(v) == [required |-> FALSE, default |-> v]

\* the signatures of the constructors
Parameters(cls) ==
    CASE cls = "Masking" -> [mask_value |-> Default(0)]
      [] cls = "Dropout" ->
             [rate |-> Required, noise_shape |-> Default(None), seed |-> Default(None)]
      [] cls = "Reshape" -> [target_shape |-> Required]
      [] cls \in {"Permute", "PermuteGeneral"} -> [dims |-> Required]
      [] cls = "Flatten" -> [data_format |-> Default(NoFormat)]
      [] cls = "RepeatVector" -> [n |-> Required]
      [] cls = "RepeatMatrix" -> [n |-> Required, dim |-> Default(1)]
      [] cls = "Dense" -> [units |-> Required, use_bias |-> Default(TRUE)]
      [] cls = "FlatMask" -> [axis |-> Default(2)]
      [] cls = "PositionLayer" -> [maxlen |-> Default(500)]
      [] cls = "WeightedSum" -> [sum_dims |-> Default(<<>>)]
      [] cls = "WeightedMerge" ->
             [mode |-> Default("sum"), init |-> Default("glorot_uniform"),
              lambdas_regularizer |-> Default(None), weights |-> Default(None)]
      [] cls = "ZeroesLayer" -> [output_dim |-> Required, input_dim |-> Default(None)]
      [] cls = "Concat" ->
             [axis |-> Default(1), cropping |-> Default(None),
              dim_ordering |-> Default("default")]
      [] cls = "Slice" -> [min_idx |-> Required, max_idx |-> Required]

CoreClasses ==
    {"Masking", "Dropout", "Reshape", "Permute", "PermuteGeneral", "Flatten",
     "RepeatVector", "RepeatMatrix", "Dense", "FlatMask", "PositionLayer",
     "WeightedSum", "WeightedMerge", "ZeroesLayer", "Concat", "Slice"}

\* Masking.__init__
Masking_init(a) == Ok([cls |-> "Masking", mask_value |-> a.mask_value])

\* Dropout.__init__: the rate is clipped to [0, 1]
Dropout_init(a) ==
    Ok([cls |-> "Dropout", rate |-> IF a.rate < 0 THEN 0
                                    ELSE IF a.rate > 1 THEN 1 ELSE a.rate,
        noise_shape |-> a.noise_shape, seed |-> a.seed])

\* Permute.__init__, PermuteGeneral.__init__
Permute_init(cls, a) == Ok([cls |-> cls, dims |-> a.dims])

\* RepeatVector.__init__
RepeatVector_init(a) == Ok([cls |-> "RepeatVector", n |-> a.n])

\* RepeatMatrix.__init__
RepeatMatrix_init(a) == Ok([cls |-> "RepeatMatrix", n |-> a.n, dim |-> a.dim])

\* Dense.__init__
Dense_init(a) == Ok([cls |-> "Dense", units |-> a.units, use_bias |-> a.use_bias])

\* FlatMask.__init__
FlatMask_init(a) == Ok([cls |-> "FlatMask", axis |-> a.axis])

\* PositionLayer.__init__: positions = K.arange(0, stop=maxlen), kept here by
\* its length
PositionLayer_init(a) == Ok([cls |-> "PositionLayer", positions |-> a.maxlen])

\* sorted(s)[::-1] of a tuple of integers
RECURSIVE SortedReversed(_)
SortedReversed(s) ==
    IF s = <<>> THEN <<>>
    ELSE LET rest == SortedReversed(Tail(s))
             above == SelectSeq(rest, LAMBDA x : x > Head(s))
             below == SelectSeq(rest, LAMBDA x : x <= Head(s))
         IN  above \o <<Head(s)>> \o below

\* WeightedSum.__init__
WeightedSum_init(a) ==
    Ok([cls |-> "WeightedSum", sum_dims |-> SortedReversed(a.sum_dims)])

\* WeightedMerge.__init__
WeightedMerge_init(a) ==
    IF a.mode \notin {"sum", "mul"} THEN Err("NotImplementedError")
    ELSE Ok([cls |-> "WeightedMerge", mode |-> a.mode, init |-> a.init,
             lambdas_regularizer |-> a.lambdas_regularizer,
             initial_weights |-> a.weights])

\* ZeroesLayer.__init__
ZeroesLayer_init(a) ==
    Ok([cls |-> "ZeroesLayer", output_dim |-> a.output_dim,
        input_dim |-> a.input_dim])

\* Slice.__init__
Slice_init(a) ==
    Ok([cls |-> "Slice", min_idx |-> a.min_idx, max_idx |-> a.max_idx])

\* the body of the constructor of cls on its bound parameters
CoreInit(cls, a) ==
    CASE cls = "Masking" -> Masking_init(a)
      [] cls = "Dropout" -> Dropout_init(a)
      [] cls = "Reshape" -> Reshape_init(a)
      [] cls \in {"Permute", "PermuteGeneral"} -> Permute_init(cls, a)
      [] cls = "Flatten" -> Flatten_init(a)
      [] cls = "RepeatVector" -> RepeatVector_init(a)
      [] cls = "RepeatMatrix" -> RepeatMatrix_init(a)
      [] cls = "Dense" -> Dense_init(a)
      [] cls = "FlatMask" -> FlatMask_init(a)
      [] cls = "PositionLayer" -> PositionLayer_init(a)
      [] cls = "WeightedSum" -> WeightedSum_init(a)
      [] cls = "WeightedMerge" -> WeightedMerge_init(a)
      [] cls = "ZeroesLayer" -> ZeroesLayer_init(a)
      [] cls = "Concat" -> Concat_init(a)
      [] cls = "Slice" -> Slice_init(a)

\* cls(**kwargs): a missing required parameter is a TypeError, a keyword
\* that is no parameter reaches the base constructor, which rejects it, and
\* an omitted optional parameter takes its default
CoreNew(cls, kwargs) ==
    LET params == Parameters(cls)
    IN  IF \E q \in DOMAIN params : params[q].required /\ q \notin DOMAIN kwargs
        THEN Err("TypeError")
        ELSE IF \E k \in DOMAIN kwargs : k \notin DOMAIN params
        THEN Err("TypeError")
        ELSE CoreInit(cls, [q \in DOMAIN params |->
                               IF q \in DOMAIN kwargs THEN kwargs[q]
                               ELSE params[q].default])

\* get_config of the layers of core.py
core_get_config(l) ==
    CASE l.cls = "Masking" -> [mask_value |-> l.mask_value]
      [] l.cls = "Dropout" ->
             [rate |-> l.rate, noise_shape |-> l.noise_shape, seed |-> l.seed]
      [] l.cls = "Reshape" -> [target_shape |-> l.target_shape]
      [] l.cls \in {"Permute", "PermuteGeneral"} -> [dims |-> l.dims]
      [] l.cls = "Flatten" -> [data_format |-> l.data_format]
      [] l.cls = "RepeatVector" -> [n |-> l.n]
      [] l.cls = "RepeatMatrix" -> [n |-> l.n, dim |-> l.dim]
      [] l.cls = "Dense" -> [units |-> l.units, use_bias |-> l.use_bias]
      [] l.cls \in {"FlatMask", "PositionLayer"} -> <<>>
      [] l.cls = "WeightedSum" -> [sum_dims |-> l.sum_dims]
      [] l.cls = "WeightedMerge" ->
             [mode |-> l.mode, kernel_initializer |-> l.init,
              lambdas_regularizer |-> l.lambdas_regularizer]
      [] l.cls = "ZeroesLayer" -> [units |-> l.output_dim, input_dim |-> l.input_dim]
      [] l.cls = "Concat" -> [axis |-> l.axis, cropping |-> l.cropping]
      [] l.cls = "Slice" -> [min_idx |-> l.min_idx, max_idx |-> l.max_idx]

\* the constructor arguments of the layers of core.py
Counts == 1..MaxArg

CoreArgsOf(cls) ==
    CASE cls = "Masking" -> [mask_value : 0..1]
      [] cls = "Dropout" ->
             [rate : -1..2, noise_shape : {None}, seed : {None, Some(1)}]
      [] cls = "Reshape" -> [target_shape : [1..MaxAxes -> {-1, 1, MaxArg}]]
      [] cls \in {"Permute", "PermuteGeneral"} -> [dims : {<<1, 2>>, <<2, 1>>}]
      [] cls = "Flatten" -> [data_format : FormatArgs]
      [] cls = "RepeatVector" -> [n : Counts]
      [] cls = "RepeatMatrix" -> [n : Counts, dim : Counts]
      [] cls = "Dense" -> [units : Counts, use_bias : BOOLEAN]
      [] cls = "FlatMask" -> [axis : Counts]
      [] cls = "PositionLayer" -> [maxlen : {MaxArg, 500}]
      [] cls = "WeightedSum" -> [sum_dims : {<<>>, <<1>>, <<1, 2>>, <<2, 1>>}]
      [] cls = "WeightedMerge" ->
             [mode : {"sum", "mul", "max"}, init : {"glorot_uniform", "zeros"},
              lambdas_regularizer : {None}, weights : {None}]
      [] cls = "ZeroesLayer" -> [output_dim : Counts, input_dim : {None, Dim(1)}]
      [] cls = "Concat" ->
             [axis : 0..1, cropping : {None, Some(<<NoMode, "lower">>)},
              dim_ordering : {"default", "tf", "th"}]
      [] cls = "Slice" -> [min_idx : 0..1, max_idx : Counts]

\* cls(**a) of a layer of core.py
ConstructCore ==
    /\ op = "none"
    /\ \E cls \in CoreClasses : \E a \in CoreArgsOf(cls) :
          LET r == CoreNew(cls, a)
          IN  /\ layer' = IF r.ok THEN r.v ELSE NoLayer
              /\ op' = "init"
              /\ arg' = [cls |-> cls, a |-> a]
              /\ ret' = IF r.ok THEN Ok(<<>>) ELSE r
    /\ UNCHANGED <<built, weights, run>>

\* layer.get_config() of a layer of core.py
CoreGetConfig ==
    /\ Fresh
    /\ layer.cls \in CoreClasses
    /\ op' = "get_config"
    /\ arg' = <<>>
    /\ ret' = Ok(core_get_config(layer))
    /\ UNCHANGED <<layer, built, weights, run>>

NextCoreConfig == ConstructCore \/ CoreGetConfig

\* construction and get_config of the layers of core.py
SpecCoreConfig == Init /\ [][NextCoreConfig]_vars

\* C27: for every configurable layer of core.py, get_config returns a
\* mapping that contains every configuration field given to the constructor
\* under the constructor's own parameter name, so that constructing the
\* class from get_config() succeeds and yields a layer with the same
\* configuration.
C27_CoreConfig ==
    (layer.cls \in CoreClasses /\ op = "get_config") =>
        LET reconstruction == CoreNew(layer.cls, ret.v)
        IN  /\ DOMAIN Parameters(layer.cls) \subseteq DOMAIN ret.v
            /\ reconstruction.ok
            /\ reconstruction.v = layer

----------------------------------------------------------------------------
(* _Cropping.call: the slices it applies to the input tensor *)

\* slice(start, stop): each bound is None or a set integer
slice(start, stop) == [start |-> start, stop |-> stop]

\* a bound of a slice on an axis of n elements: a negative bound counts from
\* the end, and every bound is clipped to 0..n
Bound(bound, n, default) ==
    IF ~IsSet(bound) THEN default
    ELSE IF bound.some < 0 THEN Max(bound.some + n, 0)
    ELSE IF bound.some > n THEN n
    ELSE bound.some

\* the number of elements x[s] keeps of an axis of n elements
SliceLength(s, n) == Max(Bound(s.stop, n, n) - Bound(s.start, n, 0), 0)

\* _Cropping.call: the shape of inputs[slices] for inputs of the given shape
Cropping_call(l, input_shape) ==
    LET slices_dims ==
            [i \in 1..Len(l.cropping) |->
                LET start == l.cropping[i][1]
                    end == l.cropping[i][2]
                IN  slice(Some(start), IF end = 0 THEN None ELSE Some(-end))]
        slices == transpose_shape(<<slice(None, None)>> \o slices_dims
                                      \o <<slice(None, None)>>,
                                  l.data_format, SpatialAxes(l.rank))
    IN  Ok([dim \in 1..Len(input_shape) |->
               Dim(SliceLength(slices[dim], input_shape[dim].n))])

\* the shapes of the tensors a cropping layer is called on: every entry known
CroppingTensorShapes(l) ==
    {s \in ShapesOfRank(l.rank + 2) : \A i \in 1..Len(s) : s[i].known}

ConstructCropping == Construct(CroppingClasses)

\* layer.call(inputs) of a cropping layer
CroppingCall ==
    /\ Fresh
    /\ layer.cls \in CroppingClasses
    /\ \E input_shape \in CroppingTensorShapes(layer) :
          /\ op' = "call"
          /\ arg' = input_shape
          /\ ret' = Cropping_call(layer, input_shape)
    /\ UNCHANGED <<layer, built, weights, run>>

NextCroppingCall == ConstructCropping \/ CroppingCall

\* Cropping1D, Cropping2D and Cropping3D, called
SpecCroppingCall == Init /\ [][NextCroppingCall]_vars

\* C29: for every cropping (start, end) and every concrete extent n of a
\* spatial axis, the number of elements the slice of _Cropping.call keeps on
\* that axis is the extent compute_output_shape reports for it,
\* n - start - end, also when end is 0.
C29_CallMatchesShape ==
    (Called /\ layer.cls \in CroppingClasses) =>
        \A i \in 1..layer.rank :
            LET at == SpatialIndex(layer, i)
            IN  /\ ret.v[at] = Cropping_compute_output_shape(layer, arg).v[at]
                /\ ret.v[at].n = arg[at].n - layer.cropping[i][1] - layer.cropping[i][2]

----------------------------------------------------------------------------
(* train_model of nmt_keras/training.py.  A local variable is None while    *)
(* it is unbound and Some(value) once it is assigned; reading an unbound    *)
(* local raises UnboundLocalError.  The functions train_model calls are     *)
(* recorded in run.calls in the order they are called.                      *)

\* largest value of params['RELOAD']
MaxReload == 2

\* the parameter dictionaries: EPOCH_OFFSET is None when the key is absent
ParamSets ==
    [MULTILANGUAGE : 0..1, RELOAD : 0..MaxReload, REBUILD_DATASET : BOOLEAN,
     RELOAD_EPOCH : BOOLEAN, BATCH_SIZE : {1},
     EPOCH_OFFSET : {None, Some(0)}]

\* the len_train of a dataset loaded from a file
LenTrains == {0, MaxReload}

\* train_model(params, load_dataset) is entered
InitTrain ==
    /\ layer = NoLayer
    /\ built = FALSE
    /\ weights = <<>>
    /\ op = "none"
    /\ arg = <<>>
    /\ ret = Ok(<<>>)
    /\ \E params \in ParamSets : \E load_dataset \in {None, Some("Dataset.pkl")} :
          run = [pc |-> "start", params |-> params, load_dataset |-> load_dataset,
                 dataset |-> None, datasets |-> None, callback |-> None,
                 calls |-> <<>>, err |-> "none"]

\* run after calling the functions named in called
Calling(r, called) == [r EXCEPT !.calls = @ \o called]

\* run after an exception has left train_model
Raise(r, err) == [r EXCEPT !.pc = "raised", !.err = err]

\* a dataset of one language pair
ADataset(len_train) == [len_train |-> len_train]

\* the "Load data" part, lines 34-82
LoadData ==
    /\ run.pc = "start"
    /\ LET p == run.params
           rebuilt ==
               IF p.MULTILANGUAGE = 0
               THEN {[Calling(run, <<"build_dataset">>)
                         EXCEPT !.dataset = Some(ADataset(n))] : n \in LenTrains}
               ELSE {[Calling(run, <<"build_dataset_multilanguage">>)
                         EXCEPT !.datasets = Some(<<ADataset(n), ADataset(n)>>)] :
                            n \in LenTrains}
           loaded == {[Calling(run, <<"loadDataset">>)
                          EXCEPT !.dataset = Some(ADataset(n))] : n \in LenTrains}
           updated ==
               {[Calling(run, <<"loadDataset", "update_dataset_from_file",
                                "saveDataset">>)
                    EXCEPT !.dataset = Some(ADataset(n)),
                           !.params.EPOCH_OFFSET =
                               Some(IF p.RELOAD_EPOCH THEN p.RELOAD
                                    ELSE IF n = 0 THEN 0
                                    ELSE (p.RELOAD * p.BATCH_SIZE) \div n)] :
                   n \in LenTrains}
           after == IF IsSet(run.load_dataset) THEN loaded
                    ELSE IF p.RELOAD > 0 /\ ~p.REBUILD_DATASET THEN updated
                    ELSE rebuilt
       IN  \E r \in after : run' = [r EXCEPT !.pc = "loaded"]
    /\ UNCHANGED <<layer, built, weights, op, arg, ret>>

\* the vocabulary sizes, lines 88-95
SetVocabularySizes ==
    /\ run.pc = "loaded"
    /\ run' = IF run.params.MULTILANGUAGE > 0
              THEN IF IsSet(run.datasets) THEN [run EXCEPT !.pc = "sized"]
                   ELSE Raise(run, "UnboundLocalError")
              ELSE IF IsSet(run.dataset) THEN [run EXCEPT !.pc = "sized"]
                   ELSE Raise(run, "UnboundLocalError")
    /\ UNCHANGED <<layer, built, weights, op, arg, ret>>

\* "Build model", lines 97-122
BuildModel ==
    /\ run.pc = "sized"
    /\ run' = IF run.params.MULTILANGUAGE > 0
              THEN IF IsSet(run.datasets)
                   THEN [Calling(run, <<"TranslationModel">>) EXCEPT !.pc = "model"]
                   ELSE Raise(run, "UnboundLocalError")
              ELSE IF IsSet(run.dataset)
                   THEN [Calling(run, <<"TranslationModel">>) EXCEPT !.pc = "model"]
                   ELSE Raise(run, "UnboundLocalError")
    /\ UNCHANGED <<layer, built, weights, op, arg, ret>>

\* the inputs and outputs mappings and the prints, lines 123-142: the first
\* statement of the first loop reads datasets[0]
SetMappings ==
    /\ run.pc = "model"
    /\ run' = IF IsSet(run.datasets)
              THEN [Calling(run, <<"setInputsMapping", "setOutputsMapping">>)
                       EXCEPT !.pc = "mapped"]
              ELSE Raise(run, "UnboundLocalError")
    /\ UNCHANGED <<layer, built, weights, op, arg, ret>>

\* the reload of a stored model, lines 143-153
Reload ==
    /\ run.pc = "mapped"
    /\ LET p == run.params
           updated == Calling(run, <<IF p.MULTILANGUAGE # 1 THEN "updateModel"
                                     ELSE "updateModelMultiway",
                                     "setParams", "setOptimizer">>)
       IN  run' =
               IF p.RELOAD <= 0 THEN [run EXCEPT !.pc = "reloaded"]
               ELSE IF IsSet(p.EPOCH_OFFSET) THEN [updated EXCEPT !.pc = "reloaded"]
               ELSE IF p.RELOAD_EPOCH
               THEN [updated EXCEPT !.pc = "reloaded",
                                    !.params.EPOCH_OFFSET = Some(p.RELOAD)]
               ELSE IF ~IsSet(run.dataset) THEN Raise(updated, "UnboundLocalError")
               ELSE IF run.dataset.some.len_train = 0
               THEN Raise(updated, "ZeroDivisionError")
               ELSE [updated EXCEPT !.pc = "reloaded",
                        !.params.EPOCH_OFFSET =
                            Some((p.RELOAD * p.BATCH_SIZE)
                                     \div run.dataset.some.len_train)]
    /\ UNCHANGED <<layer, built, weights, op, arg, ret>>

\* "Store configuration as pkl", line 155
StoreConfig ==
    /\ run.pc = "reloaded"
    /\ run' = [Calling(run, <<"dict2pkl">>) EXCEPT !.pc = "stored"]
    /\ UNCHANGED <<layer, built, weights, op, arg, ret>>

\* "Callbacks", lines 157-260: the single-language branch reads the local
\* callback, which only the loop of the other branch assigns
BuildCallbacks ==
    /\ run.pc = "stored"
    /\ run' = IF run.params.MULTILANGUAGE # 1
              THEN IF ~IsSet(run.dataset) THEN Raise(run, "UnboundLocalError")
                   ELSE IF ~IsSet(run.callback)
                   THEN Raise(Calling(run, <<"buildCallbacks">>), "UnboundLocalError")
                   ELSE [Calling(run, <<"buildCallbacks">>) EXCEPT !.pc = "ready"]
              ELSE IF ~IsSet(run.datasets) THEN Raise(run, "UnboundLocalError")
                   ELSE [Calling(run, <<"buildCallbacksMultiDataSet">>)
                            EXCEPT !.pc = "ready", !.callback = Some("callback")]
    /\ UNCHANGED <<layer, built, weights, op, arg, ret>>

\* "Training", lines 261-272
TrainNet ==
    /\ run.pc = "ready"
    /\ run' = IF run.params.MULTILANGUAGE # 1
              THEN IF ~IsSet(run.dataset) THEN Raise(run, "UnboundLocalError")
                   ELSE [Calling(run, <<"trainNet">>) EXCEPT !.pc = "returned"]
              ELSE IF ~IsSet(run.datasets) THEN Raise(run, "UnboundLocalError")
                   ELSE [Calling(run, <<"trainNet">>) EXCEPT !.pc = "returned"]
    /\ UNCHANGED <<layer, built, weights, op, arg, ret>>

NextTrain ==
    \/ LoadData
    \/ SetVocabularySizes
    \/ BuildModel
    \/ SetMappings
    \/ Reload
    \/ StoreConfig
    \/ BuildCallbacks
    \/ TrainNet

\* train_model: the statements run one after the other, and every function
\* it calls returns, so a step that can be taken is taken
SpecTrain == InitTrain /\ [][NextTrain]_vars /\ WF_vars(NextTrain)

\* the positions in run.calls of the calls of the functions in names
CallsOf(names) == {i \in 1..Len(run.calls) : run.calls[i] \in names}

\* trainNet has been called exactly once, after a dataset was built or
\* loaded, the model was constructed, the mappings were set and the
\* configuration was stored
TrainNetLaunched ==
    /\ Cardinality(CallsOf({"trainNet"})) = 1
    /\ \A i \in CallsOf({"trainNet"}) :
          \A names \in {{"build_dataset", "build_dataset_multilanguage", "loadDataset"},
                         {"TranslationModel"}, {"setInputsMapping"},
                         {"setOutputsMapping"}, {"dict2pkl"}} :
              \E j \in CallsOf(names) : j < i

\* C28: in every mode, single-language (MULTILANGUAGE == 0) and
\* multi-language (MULTILANGUAGE == 1), with RELOAD == 0 and RELOAD > 0, every
\* run of train_model eventually calls trainNet exactly once, after the
\* dataset(s) are built or loaded, the model is constructed, the input and
\* output mappings are set and the configuration is stored.
C28_TrainNetLaunched == <>TrainNetLaunched
====
